---- MODULE Spec2Model ----
(***************************************************************************)
(* Job execution engine of naver-bc-automation.                            *)
(*                                                                         *)
(* Projections of the engine are modelled, each with its own               *)
(* specification over its own group of variables:                          *)
(*   Spec        - the job life cycle: the queue dispatcher (tick), the    *)
(*                 scrape worker process (main/run), the refresh child,    *)
(*                 the cancel endpoint and the re-run endpoint, sharing    *)
(*                 the ScrapeJob rows and the progress/cancel settings.    *)
(*   SpecLive    - Spec with the fairness of its scheduling.               *)
(*   SpecSave    - the content of one run: collecting parsed posts under   *)
(*                 the maxPosts cap, the threshold clamp, the hash-based   *)
(*                 de-duplication and the inserts into ScrapePost.         *)
(*   SpecCollect - the candidate collector and its board exclusion.        *)
(*   SpecBudget  - job creation (maxPosts) and the search request budget.  *)
(*   SpecParse   - parsePost(): URL variants, walls, the overall timeout.  *)
(*   SpecClamp   - the view/comment threshold clamp.                       *)
(*   SpecSink    - rows handed to the sheet, the store, the notification.  *)
(*   SpecSession - the session material and the start of run().            *)
(*   SpecTick    - the order of the steps of tick() and main()'s loop      *)
(*                 (SpecTickLive: with the fairness of its scheduling).    *)
(*   SpecCell    - the text fields of a row sent to the sheet.             *)
(*   SpecWords   - the include/exclude words from request to filter.       *)
(* A timestamp is kept as its position relative to the dispatcher's        *)
(* staleness cutoff (now - staleMs): null, Now (written less than staleMs  *)
(* ago) or Old (written more than staleMs ago).                            *)
(***************************************************************************)
EXTENDS Integers, Sequences, FiniteSets, Bags, TLC

\* ------------------------------------------------------------------ bounds
NumJobs == 2
\* HTTP requests served: cancel requests, re-run requests
MaxCancel == 1
MaxRerun == 1
\* content of a run: ScrapeJob.maxPosts, counts, inputs per run, runs in all
MaxPostsCap == 2
MaxCount == 1
MaxInputs == 2
MaxRuns == 2

\* candidate collector: excludeBoards entries, rows per search, article ids,
\* keywords, candidate cap, cafes
MaxTokens == 1
MaxRows == 2
MaxArticles == 2
MaxKeywords == 2
MaxUrls == 2
MaxCafes == 2

\* job creation and request budget: requested maxPosts (in tenths) around
\* zero, keywords
MaxReqTenths == 12
MaxBudgetKeywords == 2
\* clamp: posts in a batch
MaxBatch == 3
\* sink: posts a run accepts, sends that fail
MaxSinkPosts == 2
MaxSendFailures == 2
\* parsePost() calls abandoned by the 90-second timeout at one time
MaxAbandoned == 1
\* dispatcher loop: QUEUED rows
MaxTickJobs == 2
\* sheet cells: characters beyond the cell limit
MaxOver == 2
\* word filter: words of one list
MaxWords == 2

\* modulus of the modelled digest
HashMod == 5

Jobs == 1..NumJobs
\* a null timestamp, a freshly written one (new Date()), and one that has
\* fallen behind the cutoff new Date(Date.now() - staleMs)
NoTime == "null"
Now == "now"
Old == "old"

QueuedCancelMsg == "cancelled by user (queued)"
WorkerCancelMsg == "cancelled by user"
StaleMsg == "stale RUNNING job auto-failed by worker (timeout)"
SessionMissingMsg == "storageState missing"
OtherErrorMsg == "Search API failed"
CancelSignal == "cancelled"
SheetSyncMsg == "Google Sheet sync failed"
StoreErrorMsg == "ScrapePost create failed"
NotifyErrorMsg == "telegram sendMessage failed"
SessionFormatMsg == "storageState format invalid (cookies/origins needed)"
JobMissingMsg == "job does not exist"
DecryptErrorMsg == "decrypt failed"
JsonErrorMsg == "Unexpected token in JSON"
LaunchErrorMsg == "browserType.launch failed"
ContextErrorMsg == "browser.newContext failed"
NoMsg == "null"

Terminal == {"SUCCESS", "FAILED", "CANCELLED"}

VARIABLES
  \* ScrapeJob rows
  status, jobType, startedAt, completedAt, errorMessage,
  \* Setting rows scrapeJobProgress:<id> and scrapeJobCancel:<id>
  progressStage, progressAt, cancelFlag,
  \* "stale": the cancel key holds a value written before the job's current
  \* run started; "deleted": this run has deleted such a value; else "none"
  staleFlag,
  \* dispatcher process: position in tick() and the job it selected
  dpc, nextJob,
  \* child processes: scrape worker per job, refresh-cafes child
  wpc, werr, rpc,
  \* HTTP requests in flight (status read, write not yet issued)
  cancelReq, rerunReq, cancelCount, rerunCount,
  \* history: what the endpoints and the workers did, for the properties
  cancelledQueued, cancelReqRunning, wrote,
  \* history: the status a job had when the re-run endpoint last reset it
  requeued,
  \* --- content of a run (SpecSave) ---
  \* the ScrapePost table, ScrapeJob.maxPosts/resultCount, runs of each job
  scrapePost, maxPosts, resultCount, runs,
  \* the run in progress: its job and filter settings, position,
  \* collected[], index into finalPosts, savedCount
  rjob, rfilter, spc, collected, saveIdx, savedCount,
  \* --- candidate collector (SpecCollect) ---
  \* the excludeBoards of the creation request, the ScrapeJob.excludeBoards column
  operatorTokens, jobExcludeBoards,
  \* run(): position, excludedBoardTokens, keywords.length, maxUrls, cafes left
  cpc, excludedBoardTokens, numKeywords, maxUrls, cafesLeft,
  \* collectArticleCandidates(): keywords searched, seen, candidates[]
  kwDone, seen, candidates,
  \* run(): index into candidates, the candidate last handed to parsePost()
  \* for the cafe at hand
  candIdx, lastParsed,
  \* the job's cancel key is set; history: keyword searches and parsePost()
  \* calls begun while it was set
  cancelRequested, startedAfterCancel,
  \* history: the rows of the last search that the board filter dropped
  lastExcluded,
  \* --- job creation and the collector's request budget (SpecBudget) ---
  \* the trigger used, the maxPosts it was sent, ScrapeJob.maxPosts, keywords.length
  trigger, requested, bMaxPosts, bKeywords,
  \* run()/collectArticleCandidates(): position, collected.length at the cafe,
  \* maxUrls, keywords searched, page requests and rows of the keyword at hand,
  \* candidates.length
  bpc, bCollected, bMaxUrls, bKwDone, pageReqs, bRows, bCand,
  \* history: a page of the keyword at hand held fewer than perPage entries
  shortPage,
  \* --- parsePost() on one candidate (SpecParse) ---
  ppc,              \* position of parsePost() and of its caller
  numVariants,      \* urlVariants.length
  canonicalLegacy,  \* the candidate's own URL is not an FE article URL
  variantIdx,       \* URL variants visited so far
  page,             \* what the extractors read on the loaded variant
  everyWall,        \* every variant visited so far showed only the join wall
  parsed,           \* what parsePost() returned to run()
  pCollected,       \* collected.length
  abandoned,        \* parsePost() calls that lost withTimeout's race and run on
  \* --- clampByAutoThreshold() on one batch (SpecClamp) ---
  \* position, posts, job.useAutoFilter, job.minViewCount,
  \* job.minCommentCount, the posts returned
  qpc, qPosts, qAuto, qMinView, qMinComment, qOut,
  \* --- run() and the sheet sink (SpecSink) ---
  kpc,           \* position of run()
  kMode,         \* "direct" (job.directUrls given) or "keyword"
  kJob,          \* maxPosts and the filter of the job
  kCollected,    \* collected[]
  sheetPending,  \* sheetPending[]
  sheetSynced,   \* sheetState.synced
  handed,        \* posts passed to sendRowsToGoogleSheet() so far
  sendFailures,  \* sends that threw so far
  kFinal,        \* finalPosts
  kSaveIdx,      \* posts of finalPosts handled by the save loop
  kStore,        \* posts with a ScrapePost row
  kStatus,       \* ScrapeJob.status
  kError,        \* ScrapeJob.errorMessage
  notified,      \* history: how the notification of the run ended
  \* --- run() up to the first navigation, with the session (SpecSession) ---
  npc,           \* position of run() / main()
  jobExists,     \* loadJob() finds the row
  sessionFile,   \* what SESSION_FILE holds
  sessionRow,    \* what the Setting row naverCafeStorageStateEnc holds
  storageState,  \* what loadStorageState() returned
  launched,      \* chromium.launch() has been called
  navigated,     \* a page has been navigated
  nStatus,       \* ScrapeJob.status
  nError,        \* ScrapeJob.errorMessage
  \* --- the dispatcher's loop (SpecTick) ---
  tpc,           \* position of main()/tick()
  tQueued,       \* QUEUED rows
  tRunning,      \* a RUNNING row exists
  refreshDue,    \* now - lastCafeRefreshAt >= intervalMs
  lastTick,      \* history: how the last tick ended
  \* --- the cells of a sheet row (SpecCell) ---
  gpc,           \* position of run()
  gPost,         \* the post parsePost() returned: lengths of its texts
  gPending,      \* the row pushed to sheetPending
  gSent,         \* the row posted to the webhook
  gStored,       \* ScrapePost.contentText: its length
  \* --- the word filter (SpecWords) ---
  fpc,           \* position: request, queued, loaded, filtered
  fJob,          \* ScrapeJob.includeWords / excludeWords
  fInclude,      \* run(): includeWords
  fExclude,      \* run(): excludeWords
  fText,         \* the text handed to the filter
  fAllowed       \* what isAllowedByWords() returned

lvars == <<status, jobType, startedAt, completedAt, errorMessage,
           progressStage, progressAt, cancelFlag, dpc, nextJob,
           wpc, werr, rpc, cancelReq, rerunReq, cancelCount,
           rerunCount, cancelledQueued, cancelReqRunning, wrote, staleFlag,
           requeued>>

svars == <<scrapePost, maxPosts, resultCount, runs, rjob, rfilter, spc,
           collected, saveIdx, savedCount>>

cvars == <<operatorTokens, jobExcludeBoards, cpc, excludedBoardTokens,
           numKeywords, maxUrls, cafesLeft, kwDone, seen, candidates, candIdx,
           lastParsed, cancelRequested, startedAfterCancel, lastExcluded>>

bvars == <<trigger, requested, bMaxPosts, bKeywords, bpc, bCollected, bMaxUrls,
           bKwDone, pageReqs, bRows, bCand, shortPage>>

\* the groups added to the three above
pvars == <<ppc, numVariants, canonicalLegacy, variantIdx, page, everyWall, parsed,
           pCollected, abandoned>>
qvars == <<qpc, qPosts, qAuto, qMinView, qMinComment, qOut>>
kvars == <<kpc, kMode, kJob, kCollected, sheetPending, sheetSynced, handed,
           sendFailures, kFinal, kSaveIdx, kStore, kStatus, kError,
           notified>>
nvars == <<npc, jobExists, sessionFile, sessionRow, storageState, launched,
           navigated, nStatus, nError>>
tvars == <<tpc, tQueued, tRunning, refreshDue, lastTick>>
gvars == <<gpc, gPost, gPending, gSent, gStored>>
fvars == <<fpc, fJob, fInclude, fExclude, fText, fAllowed>>
xvars == <<bvars, pvars, qvars, kvars, nvars, tvars, gvars, fvars>>
\* what each projection leaves alone
othersB == <<lvars, svars, cvars, pvars, qvars, kvars, nvars, tvars, gvars, fvars>>
othersP == <<lvars, svars, cvars, bvars, qvars, kvars, nvars, tvars, gvars, fvars>>
othersQ == <<lvars, svars, cvars, bvars, pvars, kvars, nvars, tvars, gvars, fvars>>
othersK == <<lvars, svars, cvars, bvars, pvars, qvars, nvars, tvars, gvars, fvars>>
othersN == <<lvars, svars, cvars, bvars, pvars, qvars, kvars, tvars, gvars, fvars>>
othersT == <<lvars, svars, cvars, bvars, pvars, qvars, kvars, nvars, gvars, fvars>>
othersG == <<lvars, svars, cvars, bvars, pvars, qvars, kvars, nvars, tvars, fvars>>
othersF == <<lvars, svars, cvars, bvars, pvars, qvars, kvars, nvars, tvars, gvars>>

vars == <<lvars, svars, cvars, xvars>>

reqCounts == <<cancelCount, rerunCount>>

\* createdAt of the rows: jobs were created in the order of their ids
createdAt == [j \in Jobs |-> j]

NoReq == [job |-> 0, queued |-> FALSE]

JobsAtRest ==
  /\ status = [j \in Jobs |-> "QUEUED"]
  /\ startedAt = [j \in Jobs |-> NoTime]
  /\ completedAt = [j \in Jobs |-> NoTime]
  /\ errorMessage = [j \in Jobs |-> NoMsg]
  /\ progressStage = [j \in Jobs |-> "none"]
  /\ progressAt = [j \in Jobs |-> NoTime]
  /\ cancelFlag = [j \in Jobs |-> FALSE]
  /\ staleFlag = [j \in Jobs |-> "none"]
  /\ dpc = "sleep"
  /\ nextJob = 0
  /\ wpc = [j \in Jobs |-> "none"]
  /\ werr = [j \in Jobs |-> "none"]
  /\ rpc = "none"
  /\ cancelReq = NoReq
  /\ rerunReq = 0
  /\ cancelCount = 0
  /\ rerunCount = 0
  /\ cancelledQueued = [j \in Jobs |-> FALSE]
  /\ cancelReqRunning = [j \in Jobs |-> FALSE]
  /\ wrote = [j \in Jobs |-> "none"]
  /\ requeued = [j \in Jobs |-> "none"]

InitJobs == JobsAtRest /\ jobType \in [Jobs -> {"SCRAPE", "REFRESH_CAFES"}]

\* the life cycle while another projection is explored
InitJobsParked == JobsAtRest /\ jobType = [j \in Jobs |-> "SCRAPE"]

\* ------------------------------------------------------------------ clock
\* time passes: the timestamps of a RUNNING job that were written less than
\* staleMs ago fall behind the cutoff (the age of a timestamp is read for
\* RUNNING jobs only, so only those are aged)
Advance ==
  /\ \E j \in Jobs :
       /\ status[j] = "RUNNING"
       /\ Now \in {startedAt[j], progressAt[j]}
       /\ startedAt' = [startedAt EXCEPT ![j] = IF @ = Now THEN Old ELSE @]
       /\ progressAt' = [progressAt EXCEPT ![j] = IF @ = Now THEN Old ELSE @]
  /\ UNCHANGED <<status, jobType, completedAt, errorMessage, progressStage,
                 cancelFlag, dpc, nextJob, wpc, werr, rpc, cancelReq, rerunReq,
                 cancelledQueued, cancelReqRunning, wrote>>
  /\ UNCHANGED <<reqCounts, staleFlag, requeued, svars, cvars, xvars>>

\* ------------------------------------------------------- queue dispatcher
\* where: { status: "RUNNING", startedAt: { lt: cutoff }, completedAt: null }
StaleRunning ==
  {j \in Jobs : /\ status[j] = "RUNNING"
                /\ startedAt[j] = Old
                /\ completedAt[j] = NoTime}

RunningCountMut == Cardinality({})

\* prisma.scrapeJob.count({ where: { status: "RUNNING" } })
RunningCount == Cardinality({j \in Jobs : status[j] = "RUNNING"})

\* where: { status: "QUEUED" }
Queued == {j \in Jobs : status[j] = "QUEUED"}

OldestQueuedMut ==
  CHOOSE j \in Queued : \A k \in Queued : createdAt[j] >= createdAt[k]

\* findFirst({ where: { status: "QUEUED" }, orderBy: { createdAt: "asc" } })
OldestQueued ==
  CHOOSE j \in Queued : \A k \in Queued : createdAt[j] <= createdAt[k]

\* tick(), first part: clearStaleRunningJobs() fails every stale RUNNING job
clearStaleRunningJobs ==
  /\ dpc = "sleep"
  /\ status' = [j \in Jobs |-> IF j \in StaleRunning THEN "FAILED" ELSE status[j]]
  /\ errorMessage' = [j \in Jobs |->
                        IF j \in StaleRunning THEN StaleMsg ELSE errorMessage[j]]
  /\ completedAt' = [j \in Jobs |->
                        IF j \in StaleRunning THEN Now ELSE completedAt[j]]
  /\ dpc' = "count"
  /\ UNCHANGED <<reqCounts, staleFlag, requeued, svars, cvars, xvars>>
  /\ UNCHANGED <<jobType, startedAt, progressStage, progressAt, cancelFlag,
                 nextJob, wpc, werr, rpc, cancelReq, rerunReq,
                 cancelledQueued, cancelReqRunning, wrote>>

\* tick(): if a job is RUNNING, report busy and return
tickCountRunning ==
  /\ dpc = "count"
  /\ dpc' = IF RunningCount > 0 THEN "sleep" ELSE "find"
  /\ UNCHANGED <<reqCounts, staleFlag, requeued, svars, cvars, xvars>>
  /\ UNCHANGED <<status, jobType, startedAt, completedAt, errorMessage,
                 progressStage, progressAt, cancelFlag, nextJob, wpc, werr,
                 rpc, cancelReq, rerunReq, cancelledQueued,
                 cancelReqRunning, wrote>>

\* tick(): pick the oldest QUEUED job and spawn the script of its job type
tickFindNext ==
  /\ dpc = "find"
  /\ IF Queued = {}
       THEN /\ dpc' = "sleep"
            /\ UNCHANGED <<nextJob, wpc, werr, rpc, wrote, staleFlag>>
       ELSE /\ nextJob' = OldestQueued
            /\ IF jobType[OldestQueued] = "REFRESH_CAFES"
                 THEN /\ rpc' = "running"
                      /\ dpc' = "await_refresh"
                      /\ UNCHANGED <<wpc, werr, wrote, staleFlag>>
                 ELSE /\ wpc' = [wpc EXCEPT ![OldestQueued] = "spawned"]
                      /\ staleFlag' = [staleFlag EXCEPT ![OldestQueued] =
                                         IF cancelFlag[OldestQueued] THEN "stale"
                                         ELSE "none"]
                      /\ werr' = [werr EXCEPT ![OldestQueued] = "none"]
                      /\ wrote' = [wrote EXCEPT ![OldestQueued] = "none"]
                      /\ dpc' = "await_scrape"
                      /\ UNCHANGED rpc
  /\ UNCHANGED <<reqCounts, requeued, svars, cvars, xvars>>
  /\ UNCHANGED <<status, jobType, startedAt, completedAt, errorMessage,
                 progressStage, progressAt, cancelFlag, cancelReq, rerunReq,
                 cancelledQueued, cancelReqRunning>>

\* refresh-cafes.ts main(): ends normally, or with process.exit(1)
refreshCafes ==
  /\ rpc = "running"
  /\ rpc' \in {"exit_ok", "exit_error"}
  /\ UNCHANGED <<reqCounts, staleFlag, requeued, svars, cvars, xvars>>
  /\ UNCHANGED <<status, jobType, startedAt, completedAt, errorMessage,
                 progressStage, progressAt, cancelFlag, dpc, nextJob, wpc,
                 werr, cancelReq, rerunReq, cancelledQueued,
                 cancelReqRunning, wrote>>

\* tick(), REFRESH_CAFES branch: on the child's exit (any code) mark SUCCESS
tickRefreshExit ==
  /\ dpc = "await_refresh"
  /\ rpc \in {"exit_ok", "exit_error"}
  /\ status' = [status EXCEPT ![nextJob] = "SUCCESS"]
  /\ completedAt' = [completedAt EXCEPT ![nextJob] = Now]
  /\ rpc' = "none"
  /\ dpc' = "sleep"
  /\ nextJob' = 0
  /\ UNCHANGED <<reqCounts, staleFlag, requeued, svars, cvars, xvars>>
  /\ UNCHANGED <<jobType, startedAt, errorMessage, progressStage, progressAt,
                 cancelFlag, wpc, werr, cancelReq, rerunReq,
                 cancelledQueued, cancelReqRunning, wrote>>

\* tick(), scrape branch: the awaited child exited; the tick returns
tickScrapeExit ==
  /\ dpc = "await_scrape"
  /\ wpc[nextJob] = "exited"
  /\ wpc' = [wpc EXCEPT ![nextJob] = "none"]
  /\ werr' = [werr EXCEPT ![nextJob] = "none"]
  /\ wrote' = [wrote EXCEPT ![nextJob] = "none"]
  /\ dpc' = "sleep"
  /\ nextJob' = 0
  /\ UNCHANGED <<reqCounts, staleFlag, requeued, svars, cvars, xvars>>
  /\ UNCHANGED <<status, jobType, startedAt, completedAt, errorMessage,
                 progressStage, progressAt, cancelFlag, rpc, cancelReq,
                 rerunReq, cancelledQueued, cancelReqRunning>>

\* ------------------------------------------- scrape worker (scrape-job.ts)
Alive(j) == wpc[j] \notin {"none", "exited"}

\* run(): loadJob() and loadStorageState(); a missing session throws before
\* the job is marked RUNNING
runLoad(j) ==
  /\ wpc[j] = "spawned"
  /\ \/ /\ wpc' = [wpc EXCEPT ![j] = "loaded"]
        /\ UNCHANGED werr
     \/ /\ wpc' = [wpc EXCEPT ![j] = "catch"]
        /\ werr' = [werr EXCEPT ![j] = SessionMissingMsg]
  /\ UNCHANGED <<reqCounts, staleFlag, requeued, svars, cvars, xvars>>
  /\ UNCHANGED <<status, jobType, startedAt, completedAt, errorMessage,
                 progressStage, progressAt, cancelFlag, dpc, nextJob,
                 rpc, cancelReq, rerunReq, cancelledQueued, cancelReqRunning,
                 wrote>>

deletedMut(flag) == flag

\* prisma.setting.deleteMany(): the key is gone, whatever it held
deleted(flag) == FALSE

\* run(): clearCancelAndProgress(jobId) deletes both setting keys
clearCancelAndProgress(j) ==
  /\ wpc[j] = "loaded"
  /\ progressStage' = [progressStage EXCEPT ![j] = "none"]
  /\ progressAt' = [progressAt EXCEPT ![j] = NoTime]
  /\ cancelFlag' = [cancelFlag EXCEPT ![j] = deleted(cancelFlag[j])]
  /\ staleFlag' = [staleFlag EXCEPT ![j] =
                      IF @ = "stale" /\ ~ deleted(cancelFlag[j]) THEN "deleted"
                      ELSE @]
  /\ wpc' = [wpc EXCEPT ![j] = "cleared"]
  /\ UNCHANGED <<reqCounts, requeued, svars, cvars, xvars>>
  /\ UNCHANGED <<status, jobType, startedAt, completedAt, errorMessage, dpc,
                 nextJob, werr, rpc, cancelReq, rerunReq,
                 cancelledQueued, cancelReqRunning, wrote>>

\* run(): update { status: "RUNNING", startedAt: new Date(), errorMessage:
\* null }, whatever the row's status is
runSetRunning(j) ==
  /\ wpc[j] = "cleared"
  /\ status' = [status EXCEPT ![j] = "RUNNING"]
  /\ startedAt' = [startedAt EXCEPT ![j] = Now]
  /\ errorMessage' = [errorMessage EXCEPT ![j] = NoMsg]
  /\ wpc' = [wpc EXCEPT ![j] = "loop"]
  /\ UNCHANGED <<reqCounts, staleFlag, requeued, svars, cvars, xvars>>
  /\ UNCHANGED <<jobType, completedAt, progressStage, progressAt, cancelFlag,
                 dpc, nextJob, werr, rpc, cancelReq, rerunReq,
                 cancelledQueued, cancelReqRunning, wrote>>

\* isCancelRequested(jobId): the cancel key holds "true"
isCancelRequested(j) == cancelFlag[j]

\* run(): the checkpoint before each cafe search / URL / candidate parse
runCheckpoint(j) ==
  /\ wpc[j] = "loop"
  /\ IF isCancelRequested(j)
       THEN /\ progressStage' = [progressStage EXCEPT ![j] = "CANCELLED"]
            /\ progressAt' = [progressAt EXCEPT ![j] = Now]
            /\ werr' = [werr EXCEPT ![j] = CancelSignal]
            /\ wpc' = [wpc EXCEPT ![j] = "catch"]
       ELSE /\ wpc' = [wpc EXCEPT ![j] = "work"]
            /\ UNCHANGED <<progressStage, progressAt, werr>>
  /\ UNCHANGED <<reqCounts, staleFlag, requeued, svars, cvars, xvars>>
  /\ UNCHANGED <<status, jobType, startedAt, completedAt, errorMessage,
                 cancelFlag, dpc, nextJob, rpc, cancelReq, rerunReq,
                 cancelledQueued, cancelReqRunning, wrote>>

\* run(): one unit of work (setJobProgress, then a search or a parse); a
\* candidate-scoped failure is absorbed, a job-scoped one is thrown
runWork(j) ==
  /\ wpc[j] = "work"
  /\ progressStage' = [progressStage EXCEPT ![j] = "PARSE"]
  /\ progressAt' = [progressAt EXCEPT ![j] = Now]
  /\ \/ /\ wpc' = [wpc EXCEPT ![j] = "loop"]
        /\ UNCHANGED werr
     \/ /\ werr' = [werr EXCEPT ![j] = OtherErrorMsg]
        /\ wpc' = [wpc EXCEPT ![j] = "catch"]
  /\ UNCHANGED <<reqCounts, staleFlag, requeued, svars, cvars, xvars>>
  /\ UNCHANGED <<status, jobType, startedAt, completedAt, errorMessage,
                 cancelFlag, dpc, nextJob, rpc, cancelReq, rerunReq,
                 cancelledQueued, cancelReqRunning, wrote>>

\* run(): the loops are exhausted (no cafe, URL or candidate left): clamp, final flush, inserts, CSV; then
\* setJobProgress(DONE).  A failing insert is thrown.
runSave(j) ==
  /\ wpc[j] = "loop"
  /\ \/ /\ progressStage' = [progressStage EXCEPT ![j] = "DONE"]
        /\ progressAt' = [progressAt EXCEPT ![j] = Now]
        /\ wpc' = [wpc EXCEPT ![j] = "saved"]
        /\ UNCHANGED werr
     \/ /\ werr' = [werr EXCEPT ![j] = OtherErrorMsg]
        /\ wpc' = [wpc EXCEPT ![j] = "catch"]
        /\ UNCHANGED <<progressStage, progressAt>>
  /\ UNCHANGED <<reqCounts, staleFlag, requeued, svars, cvars, xvars>>
  /\ UNCHANGED <<status, jobType, startedAt, completedAt, errorMessage,
                 cancelFlag, dpc, nextJob, rpc, cancelReq, rerunReq,
                 cancelledQueued, cancelReqRunning, wrote>>

\* run(): update { status: "SUCCESS", ..., completedAt: new Date() }; the
\* process then ends
runSuccess(j) ==
  /\ wpc[j] = "saved"
  /\ status' = [status EXCEPT ![j] = "SUCCESS"]
  /\ completedAt' = [completedAt EXCEPT ![j] = Now]
  /\ wrote' = [wrote EXCEPT ![j] = "SUCCESS"]
  /\ wpc' = [wpc EXCEPT ![j] = "exited"]
  /\ UNCHANGED <<reqCounts, staleFlag, requeued, svars, cvars, xvars>>
  /\ UNCHANGED <<jobType, startedAt, errorMessage, progressStage, progressAt,
                 cancelFlag, dpc, nextJob, werr, rpc, cancelReq,
                 rerunReq, cancelledQueued, cancelReqRunning>>

CatchStatusMut(message) == "FAILED"

\* main(), catch: the status and message recorded for a thrown error
CatchStatus(message) == IF message = CancelSignal THEN "CANCELLED" ELSE "FAILED"
CatchMessage(message) == IF message = CancelSignal THEN WorkerCancelMsg ELSE message

\* main(), catch: update { status, errorMessage, completedAt }
mainCatch(j) ==
  /\ wpc[j] = "catch"
  /\ status' = [status EXCEPT ![j] = CatchStatus(werr[j])]
  /\ errorMessage' = [errorMessage EXCEPT ![j] = CatchMessage(werr[j])]
  /\ completedAt' = [completedAt EXCEPT ![j] = Now]
  /\ wrote' = [wrote EXCEPT ![j] = CatchStatus(werr[j])]
  /\ wpc' = [wpc EXCEPT ![j] =
               IF werr[j] = CancelSignal THEN "catch_progress" ELSE "exited"]
  /\ UNCHANGED <<reqCounts, staleFlag, requeued, svars, cvars, xvars>>
  /\ UNCHANGED <<jobType, startedAt, progressStage, progressAt, cancelFlag,
                 dpc, nextJob, werr, rpc, cancelReq, rerunReq,
                 cancelledQueued, cancelReqRunning>>

\* main(), catch: if cancelled, setJobProgress(CANCELLED); the process ends
mainCatchProgress(j) ==
  /\ wpc[j] = "catch_progress"
  /\ progressStage' = [progressStage EXCEPT ![j] = "CANCELLED"]
  /\ progressAt' = [progressAt EXCEPT ![j] = Now]
  /\ wpc' = [wpc EXCEPT ![j] = "exited"]
  /\ UNCHANGED <<reqCounts, staleFlag, requeued, svars, cvars, xvars>>
  /\ UNCHANGED <<status, jobType, startedAt, completedAt, errorMessage,
                 cancelFlag, dpc, nextJob, werr, rpc, cancelReq,
                 rerunReq, cancelledQueued, cancelReqRunning, wrote>>

\* the worker process dies (crash, kill) without writing anything more
workerCrash(j) ==
  /\ Alive(j)
  /\ wpc' = [wpc EXCEPT ![j] = "exited"]
  /\ UNCHANGED <<reqCounts, staleFlag, requeued, svars, cvars, xvars>>
  /\ UNCHANGED <<status, jobType, startedAt, completedAt, errorMessage,
                 progressStage, progressAt, cancelFlag, dpc, nextJob, werr,
                 rpc, cancelReq, rerunReq, cancelledQueued,
                 cancelReqRunning, wrote>>

\* ------------------------------------------------- cancel endpoint (POST)
\* findUnique({ where: { id }, select: { status } })
cancelRead(j) ==
  /\ cancelReq = NoReq
  /\ cancelCount < MaxCancel
  /\ cancelReq' = [job |-> j, queued |-> (status[j] = "QUEUED")]
  /\ cancelReqRunning' = [cancelReqRunning EXCEPT ![j] = @ \/ status[j] = "RUNNING"]
  /\ cancelCount' = cancelCount + 1
  /\ UNCHANGED <<rerunCount, staleFlag, requeued, svars, cvars, xvars>>
  /\ UNCHANGED <<status, jobType, startedAt, completedAt, errorMessage,
                 progressStage, progressAt, cancelFlag, dpc, nextJob, wpc,
                 werr, rpc, rerunReq, cancelledQueued, wrote>>

\* QUEUED branch: update to CANCELLED and delete both keys; otherwise upsert
\* the progress snapshot (stage CANCELLED) and the cancel key
cancelWrite ==
  /\ cancelReq # NoReq
  /\ LET j == cancelReq.job IN
       IF cancelReq.queued
         THEN /\ status' = [status EXCEPT ![j] = "CANCELLED"]
              /\ completedAt' = [completedAt EXCEPT ![j] = Now]
              /\ errorMessage' = [errorMessage EXCEPT ![j] = QueuedCancelMsg]
              /\ progressStage' = [progressStage EXCEPT ![j] = "none"]
              /\ progressAt' = [progressAt EXCEPT ![j] = NoTime]
              /\ cancelFlag' = [cancelFlag EXCEPT ![j] = FALSE]
              /\ staleFlag' = [staleFlag EXCEPT ![j] = "none"]
              /\ cancelledQueued' = [cancelledQueued EXCEPT ![j] = TRUE]
         ELSE /\ progressStage' = [progressStage EXCEPT ![j] = "CANCELLED"]
              /\ progressAt' = [progressAt EXCEPT ![j] = Now]
              /\ cancelFlag' = [cancelFlag EXCEPT ![j] = TRUE]
              /\ staleFlag' = [staleFlag EXCEPT ![j] = "none"]
              /\ UNCHANGED <<status, completedAt, errorMessage, cancelledQueued>>
  /\ cancelReq' = NoReq
  /\ UNCHANGED <<reqCounts, requeued, svars, cvars, xvars>>
  /\ UNCHANGED <<jobType, startedAt, dpc, nextJob, wpc, werr, rpc,
                 rerunReq, cancelReqRunning, wrote>>

\* ------------------------------------------------- re-run endpoint (POST)
\* findUnique; a RUNNING job is refused with 409
rerunRead(j) ==
  /\ rerunReq = 0
  /\ rerunCount < MaxRerun
  /\ status[j] # "RUNNING"
  /\ rerunReq' = j
  /\ rerunCount' = rerunCount + 1
  /\ UNCHANGED <<cancelCount, staleFlag, requeued, svars, cvars, xvars>>
  /\ UNCHANGED <<status, jobType, startedAt, completedAt, errorMessage,
                 progressStage, progressAt, cancelFlag, dpc, nextJob, wpc,
                 werr, rpc, cancelReq, cancelledQueued,
                 cancelReqRunning, wrote>>

\* update { status: "QUEUED", startedAt: null, completedAt: null,
\* errorMessage: null }
rerunWrite ==
  /\ rerunReq # 0
  /\ status' = [status EXCEPT ![rerunReq] = "QUEUED"]
  /\ startedAt' = [startedAt EXCEPT ![rerunReq] = NoTime]
  /\ completedAt' = [completedAt EXCEPT ![rerunReq] = NoTime]
  /\ errorMessage' = [errorMessage EXCEPT ![rerunReq] = NoMsg]
  /\ cancelledQueued' = [cancelledQueued EXCEPT ![rerunReq] = FALSE]
  /\ cancelReqRunning' = [cancelReqRunning EXCEPT ![rerunReq] = FALSE]
  /\ requeued' = [requeued EXCEPT ![rerunReq] = status[rerunReq]]
  /\ rerunReq' = 0
  /\ UNCHANGED <<reqCounts, staleFlag, svars, cvars, xvars>>
  /\ UNCHANGED <<jobType, progressStage, progressAt, cancelFlag, dpc,
                 nextJob, wpc, werr, rpc, cancelReq, wrote>>

\* ============================================================ SpecSave
\* the content of a run of run(): collect, clamp, cap, de-duplicate, insert
Urls == {"u1", "u2"}
Texts == {"t1", "t2"}
Counts == 0..MaxCount
\* a null minViewCount / minCommentCount
NoMin == -1

Min(a, b) == IF a <= b THEN a ELSE b

\* the digest of lib/scrape/hash: a deterministic function of the string,
\* here a polynomial digest of its symbols (distinct strings may collide)
Code(sym) ==
  CASE sym = "u1" -> 1 [] sym = "u2" -> 2 [] sym = "t1" -> 3 [] sym = "t2" -> 4
    [] OTHER -> 5
RECURSIVE Digest(_, _)
Digest(str, h) ==
  IF str = <<>> THEN h
  ELSE Digest(Tail(str), (h * 3 + Code(Head(str))) % HashMod)
contentHash(str) == Digest(str, 0)

\* `${post.sourceUrl}\n${post.contentText}`
HashInput(post) == <<post.sourceUrl, "\n", post.contentText>>

JobMaxPostsMut(j) == maxPosts[j] + 1

\* job.maxPosts as loaded by loadJob()
JobMaxPosts(j) == maxPosts[j]

\* Array.prototype.sort((a, b) => a - b)
RECURSIVE Insert(_, _)
Insert(x, sorted) ==
  IF sorted = <<>> THEN <<x>>
  ELSE IF x <= Head(sorted) THEN <<x>> \o sorted
  ELSE <<Head(sorted)>> \o Insert(x, Tail(sorted))
RECURSIVE SortAsc(_)
SortAsc(seq) == IF seq = <<>> THEN <<>> ELSE Insert(Head(seq), SortAsc(Tail(seq)))

\* posts.filter(...)
RECURSIVE Filter(_, _, _)
Filter(posts, minView, minComment) ==
  IF posts = <<>> THEN <<>>
  ELSE LET p == Head(posts)
           rest == Filter(Tail(posts), minView, minComment)
       IN IF (minView # NoMin /\ p.viewCount < minView)
               \/ (minComment # NoMin /\ p.commentCount < minComment)
            THEN rest ELSE <<p>> \o rest

MidOrZeroMut(sorted) ==
  IF sorted = <<>> THEN 0 ELSE sorted[((Len(sorted) - 1) \div 2) + 1]

\* sorted[mid] || 0, with mid = Math.floor(posts.length / 2)
MidOrZero(sorted) ==
  IF sorted = <<>> THEN 0 ELSE sorted[(Len(sorted) \div 2) + 1]

clampByAutoThreshold(posts, useAutoFilter, minView, minComment) ==
  IF ~useAutoFilter /\ minView = NoMin /\ minComment = NoMin THEN posts
  ELSE LET sortedViews == SortAsc([i \in DOMAIN posts |-> posts[i].viewCount])
           sortedComments == SortAsc([i \in DOMAIN posts |-> posts[i].commentCount])
           appliedMinView ==
             IF useAutoFilter /\ minView = NoMin THEN MidOrZero(sortedViews)
             ELSE minView
           appliedMinComment ==
             IF useAutoFilter /\ minComment = NoMin THEN MidOrZero(sortedComments)
             ELSE minComment
       IN Filter(posts, appliedMinView, appliedMinComment)

\* filtered.slice(0, job.maxPosts)
Slice(seq, n) == SubSeq(seq, 1, Min(n, Len(seq)))

ExistedByHashMut(hash) == FALSE

\* findUnique({ where: { contentHash: hash } }) found a row
ExistedByHash(hash) == \E r \in BagToSet(scrapePost) : r.contentHash = hash

\* the rows findFirst({ where: { sourceUrl } }) may return (no orderBy)
RowsByUrl(url) == {r \in BagToSet(scrapePost) : r.sourceUrl = url}

\* the number of rows stored under job j
RECURSIVE SumCopies(_)
SumCopies(rows) ==
  IF rows = {} THEN 0
  ELSE LET r == CHOOSE x \in rows : TRUE
       IN CopiesIn(r, scrapePost) + SumCopies(rows \ {r})
RowsOfJob(j) == SumCopies({r \in BagToSet(scrapePost) : r.jobId = j})

RECURSIVE TotalRuns(_)
TotalRuns(js) ==
  IF js = {} THEN 0
  ELSE LET j == CHOOSE x \in js : TRUE IN runs[j] + TotalRuns(js \ {j})

NoFilter == [useAutoFilter |-> FALSE, minViewCount |-> NoMin, minCommentCount |-> NoMin]

SaveRunIdle ==
  /\ rjob = 0
  /\ rfilter = NoFilter
  /\ spc = "idle"
  /\ collected = <<>>
  /\ saveIdx = 0
  /\ savedCount = 0

\* the run variables while another projection is explored
SaveParked ==
  /\ scrapePost = EmptyBag
  /\ maxPosts = [j \in Jobs |-> 1]
  /\ resultCount = [j \in Jobs |-> 0]
  /\ runs = [j \in Jobs |-> 0]
  /\ SaveRunIdle

InitSave ==
  /\ scrapePost = EmptyBag
  /\ maxPosts \in [Jobs -> 1..MaxPostsCap]
  /\ resultCount = [j \in Jobs |-> 0]
  /\ runs = [j \in Jobs |-> 0]
  /\ SaveRunIdle

\* run() starts for job j: the job row and its filter settings are loaded,
\* the lists of URLs / candidates hold up to MaxInputs entries
runBegin(j) ==
  /\ spc = "idle"
  /\ TotalRuns(Jobs) < MaxRuns
  /\ runs' = [runs EXCEPT ![j] = @ + 1]
  /\ rjob' = j
  /\ rfilter' \in [useAutoFilter : BOOLEAN, minViewCount : {NoMin, 1},
                   minCommentCount : {NoMin, 1}]
  /\ collected' = <<>>
  /\ spc' = "collect"
  /\ UNCHANGED <<scrapePost, maxPosts, resultCount, saveIdx, savedCount>>
  /\ UNCHANGED <<lvars, cvars, xvars>>

\* run(), one pass of the URL / candidate loop that reaches collected.push():
\* the loop has not hit `collected.length >= job.maxPosts` (break) and
\* parsePost() returned a post that the filters kept. A pass that drops its
\* input (continue) changes nothing. A run reads at most MaxInputs inputs.
runCollect ==
  /\ spc = "collect"
  /\ Len(collected) < MaxInputs
  /\ ~(Len(collected) >= JobMaxPosts(rjob))
  /\ \E u \in Urls, t \in Texts, v \in Counts, c \in Counts :
       collected' = Append(collected,
          [sourceUrl |-> u, contentText |-> t,
           viewCount |-> v, commentCount |-> c])
  /\ UNCHANGED <<scrapePost, maxPosts, resultCount, runs, rjob, rfilter,
                 spc, saveIdx, savedCount>>
  /\ UNCHANGED <<lvars, cvars, xvars>>

\* run(), after the loops:
\*   filtered = clampByAutoThreshold(collected, ...)
\*   finalPosts = filtered.slice(0, job.maxPosts)
finalPosts ==
  Slice(clampByAutoThreshold(collected, rfilter.useAutoFilter,
                             rfilter.minViewCount, rfilter.minCommentCount),
        JobMaxPosts(rjob))

\* run(): the loops are over (inputs exhausted or break), the save loop
\* starts with savedCount = 0
runFinalize ==
  /\ spc = "collect"
  /\ saveIdx' = 1
  /\ savedCount' = 0
  /\ spc' = "save"
  /\ UNCHANGED <<scrapePost, maxPosts, resultCount, runs, rjob, rfilter,
                 collected>>
  /\ UNCHANGED <<lvars, cvars, xvars>>

\* findFirst() returned null
NoRow == [jobId |-> 0]

IsSameAsExistingMut(hash, existedByUrl) == existedByUrl # NoRow

\* isSameAsExisting = Boolean(existedByHash) ||
\*                    (existedByUrl && existedByUrl.contentHash === hash),
\* existedByUrl being a row, or NoRow for null
IsSameAsExisting(hash, existedByUrl) ==
  ExistedByHash(hash) \/ (existedByUrl # NoRow /\ existedByUrl.contentHash = hash)

\* run(), one pass of the save loop over finalPosts
runSavePost ==
  /\ spc = "save"
  /\ saveIdx <= Len(finalPosts)
  /\ LET post == finalPosts[saveIdx]
         hash == contentHash(HashInput(post))
     IN \E existedByUrl \in (IF RowsByUrl(post.sourceUrl) = {} THEN {NoRow}
                             ELSE RowsByUrl(post.sourceUrl)) :
          IF IsSameAsExisting(hash, existedByUrl)
            THEN UNCHANGED <<scrapePost, savedCount>>
            ELSE /\ scrapePost' = scrapePost (+) SetToBag(
                        {[jobId |-> rjob, sourceUrl |-> post.sourceUrl,
                          contentText |-> post.contentText, contentHash |-> hash]})
                 /\ savedCount' = savedCount + 1
  /\ saveIdx' = saveIdx + 1
  /\ UNCHANGED <<maxPosts, resultCount, runs, rjob, rfilter, spc,
                 collected>>
  /\ UNCHANGED <<lvars, cvars, xvars>>

\* run(): update { status: "SUCCESS", resultCount: savedCount, ... }
runFinish ==
  /\ spc = "save"
  /\ saveIdx > Len(finalPosts)
  /\ resultCount' = [resultCount EXCEPT ![rjob] = savedCount]
  /\ rjob' = 0
  /\ rfilter' = NoFilter
  /\ spc' = "idle"
  /\ collected' = <<>>
  /\ saveIdx' = 0
  /\ savedCount' = 0
  /\ UNCHANGED <<scrapePost, maxPosts, runs>>
  /\ UNCHANGED <<lvars, cvars, xvars>>

NextSave ==
  \/ \E j \in Jobs : runBegin(j)
  \/ runCollect
  \/ runFinalize
  \/ runSavePost
  \/ runFinish

\* ========================================================= SpecCollect
\* the board filter from the creation request to parsePost()
\* strings are sequences of characters
Chars == {"a", "b", "l", "A", "B", "L", " "}

\* the excludeBoards entries an operator may send
RawTokens == {<<>>, <<" ">>, <<"a">>, <<"A", " ">>, <<"a", "b">>, <<"l">>}

\* boardType (the API's value, "L" when it sends none) and boardName
BoardTypes == {<<"L">>, <<"A">>}
BoardNames == {<<>>, <<"A", " ", "B">>}

\* a null column
NullCol == "null"
NoCand == [articleId |-> 0]

IsSpace(c) == c = " "

Lower(c) ==
  CASE c = "A" -> "a" [] c = "B" -> "b" [] c = "L" -> "l" [] OTHER -> c

toLowerCase(str) == [i \in DOMAIN str |-> Lower(str[i])]

\* .replace(/\s+/g, "")
removeWhitespace(str) == SelectSeq(str, LAMBDA c : ~IsSpace(c))

RECURSIVE trimStart(_)
trimStart(str) ==
  IF str # <<>> /\ IsSpace(Head(str)) THEN trimStart(Tail(str)) ELSE str
RECURSIVE trimEnd(_)
trimEnd(str) ==
  IF str # <<>> /\ IsSpace(str[Len(str)])
    THEN trimEnd(SubSeq(str, 1, Len(str) - 1)) ELSE str
trim(str) == trimEnd(trimStart(str))

\* String.prototype.includes
includes(hay, needle) ==
  \E i \in 0..(Len(hay) - Len(needle)) : SubSeq(hay, i + 1, i + Len(needle)) = needle

\* .filter(Boolean) / .filter((item) => item.length > 0) on strings
nonEmpty(list) == SelectSeq(list, LAMBDA str : str # <<>>)

\* parseStringList(body.excludeBoards), array input
parseStringList(input) ==
  nonEmpty([i \in DOMAIN input |-> removeWhitespace(trim(input[i]))])

\* parseJsonStringArray(job.excludeBoards); the column holds the JSON text of
\* an array of strings, or null
parseJsonStringArray(raw) ==
  IF raw = NullCol THEN <<>>
  ELSE nonEmpty([i \in DOMAIN raw |-> trim(raw[i])])

normalizeBoardToken(value) == trim(removeWhitespace(toLowerCase(value)))

isExcludedBoard(candidate, tokens) ==
  IF tokens = {} THEN FALSE
  ELSE LET boardTokens ==
             {normalizeBoardToken(v) :
                v \in {x \in {candidate.boardType, candidate.boardName} : x # <<>>}}
       IN \E board \in boardTokens :
            /\ board # <<>>
            /\ \E blocked \in tokens :
                 /\ blocked # <<>>
                 /\ \/ board = blocked
                    \/ includes(board, blocked)
                    \/ includes(blocked, board)

\* the rows fetchCandidatesFromSearchApi() may return
SearchRows ==
  [articleId : 1..MaxArticles, boardType : BoardTypes, boardName : BoardNames,
   addedAt : 0..1]
RowLists == UNION {[1..n -> SearchRows] : n \in 0..MaxRows}

Max(a, b) == IF a >= b THEN a ELSE b

perKeywordTakeMut == maxUrls

\* Math.max(1, Math.floor(maxUrls / Math.max(1, keywords.length)))
perKeywordTake == Max(1, maxUrls \div Max(1, numKeywords))

\* collectArticleCandidates(), the loop `for (let i = 0; i < take; i += 1)`
\* over the rows of one keyword, from row i on
RECURSIVE takeRows(_, _, _, _, _, _)
takeRows(rows, i, take, tokens, seenAcc, candAcc) ==
  IF i > take THEN [seen |-> seenAcc, candidates |-> candAcc]
  ELSE IF i > Len(rows)
    THEN takeRows(rows, i + 1, take, tokens, seenAcc, candAcc)
  ELSE LET row == rows[i]
       IN IF isExcludedBoard(row, tokens)
            THEN takeRows(rows, i + 1, take, tokens, seenAcc, candAcc)
          ELSE IF row.articleId \in seenAcc
            THEN takeRows(rows, i + 1, take, tokens, seenAcc, candAcc)
          ELSE takeRows(rows, i + 1, take, tokens, seenAcc \cup {row.articleId},
                        IF Len(candAcc) < maxUrls THEN Append(candAcc, row)
                        ELSE candAcc)

\* candidates.sort((a, b) => bt - at), a stable sort, newest first
RECURSIVE InsertDesc(_, _)
InsertDesc(x, sorted) ==
  IF sorted = <<>> THEN <<x>>
  ELSE IF Head(sorted).addedAt >= x.addedAt
    THEN <<Head(sorted)>> \o InsertDesc(x, Tail(sorted))
  ELSE <<x>> \o sorted
RECURSIVE SortNewestFirst(_)
SortNewestFirst(list) ==
  IF list = <<>> THEN <<>>
  ELSE InsertDesc(list[Len(list)],
                  SortNewestFirst(SubSeq(list, 1, Len(list) - 1)))

CollectRunIdle ==
  /\ cpc = "created"
  /\ excludedBoardTokens = {}
  /\ kwDone = 0
  /\ seen = {}
  /\ candidates = <<>>
  /\ candIdx = 0
  /\ lastParsed = NoCand
  /\ cancelRequested = FALSE
  /\ startedAfterCancel = 0
  /\ lastExcluded = {}

\* the collector variables while another projection is explored
CollectParked ==
  /\ operatorTokens = <<>>
  /\ jobExcludeBoards = <<>>
  /\ numKeywords = 1
  /\ maxUrls = 1
  /\ cafesLeft = 1
  /\ CollectRunIdle

\* POST /api/scrape-jobs has created the job: excludeBoards is stored as
\* JSON.stringify(parseStringList(body.excludeBoards))
InitCollect ==
  /\ operatorTokens \in UNION {[1..n -> RawTokens] : n \in 0..MaxTokens}
  /\ jobExcludeBoards = parseStringList(operatorTokens)
  /\ numKeywords \in 1..MaxKeywords
  /\ maxUrls \in 1..MaxUrls
  /\ cafesLeft = MaxCafes
  /\ CollectRunIdle

\* new Set(parseJsonStringArray(job.excludeBoards).map(normalizeBoardToken))
BoardTokenSet(column) ==
  {normalizeBoardToken(parseJsonStringArray(column)[i]) :
     i \in DOMAIN parseJsonStringArray(column)}

\* loadJob() and run()'s set-up: the first query returns the row, or it fails
\* with an error that carries a string code and the second query, which
\* does not select excludeBoards, returns the row with excludeBoards: null
runLoadJob ==
  /\ cpc = "created"
  /\ \/ excludedBoardTokens' = BoardTokenSet(jobExcludeBoards)
     \/ excludedBoardTokens' = BoardTokenSet(NullCol)
  /\ cpc' = IF cancelRequested THEN "cancelled" ELSE "clubid"
  /\ kwDone' = 0
  /\ seen' = {}
  /\ candidates' = <<>>
  /\ UNCHANGED <<operatorTokens, jobExcludeBoards, numKeywords, maxUrls,
                 cafesLeft, candIdx, lastParsed>>
  /\ UNCHANGED <<cancelRequested, startedAfterCancel, lastExcluded, lvars, svars,
                 xvars>>

\* collectArticleCandidates(): const cafeNumericId = await getClubId(page,
\* cafeId). A numeric cafeId is returned as it is; else the id is resolved by
\* a request, or by page.goto(homeUrl, { timeout: 35000 }), which throws on a
\* navigation timeout, as getClubId() does when no clubid is found. The call
\* has no catch: the error leaves run() and main() sets the job FAILED
getClubId ==
  /\ cpc = "clubid"
  /\ cpc' \in {"collect", "failed"}
  /\ UNCHANGED <<operatorTokens, jobExcludeBoards, excludedBoardTokens,
                 numKeywords, maxUrls, cafesLeft, kwDone, seen, candidates,
                 candIdx, lastParsed>>
  /\ UNCHANGED <<cancelRequested, startedAfterCancel, lastExcluded, lvars, svars,
                 xvars>>

\* collectArticleCandidates(), one pass of the keyword loop: the search
\* request fails (.catch(() => [])) or returns its rows
collectKeyword ==
  /\ cpc = "collect"
  /\ kwDone < numKeywords
  /\ \E list \in RowLists :
       LET rows == [i \in DOMAIN list |->
                      [articleId |-> list[i].articleId,
                       boardType |-> list[i].boardType,
                       boardName |-> list[i].boardName,
                       addedAt |-> list[i].addedAt,
                       queryKeyword |-> kwDone + 1]]
           take == Max(1, Min(perKeywordTake, Len(rows)))
           out == takeRows(rows, 1, take, excludedBoardTokens, seen, candidates)
       IN /\ seen' = out.seen
          /\ candidates' = out.candidates
          /\ lastExcluded' =
               {list[i] : i \in {k \in DOMAIN list :
                                   /\ k <= take
                                   /\ isExcludedBoard(list[k], excludedBoardTokens)}}
  /\ kwDone' = kwDone + 1
  /\ startedAfterCancel' =
       IF cancelRequested THEN startedAfterCancel + 1 ELSE startedAfterCancel
  /\ UNCHANGED <<operatorTokens, jobExcludeBoards, cpc, excludedBoardTokens,
                 numKeywords, maxUrls, cafesLeft, candIdx, lastParsed>>
  /\ UNCHANGED <<cancelRequested, lvars, svars, xvars>>

\* collectArticleCandidates(), after the keyword loop: sort, truncate, return
collectReturn ==
  /\ cpc = "collect"
  /\ kwDone = numKeywords
  /\ candidates' = LET sorted == SortNewestFirst(candidates)
                   IN IF Len(sorted) > maxUrls THEN SubSeq(sorted, 1, maxUrls)
                      ELSE sorted
  /\ candIdx' = 1
  /\ cpc' = "parse"
  /\ UNCHANGED <<operatorTokens, jobExcludeBoards, excludedBoardTokens,
                 numKeywords, maxUrls, cafesLeft, kwDone, seen, lastParsed>>
  /\ UNCHANGED <<cancelRequested, startedAfterCancel, lastExcluded, lvars, svars,
                 xvars>>

\* run(), one pass of `for (const cand of candidates)`: the date and count
\* filters drop the candidate (continue) or it is handed to parsePost()
runParseCandidate ==
  /\ cpc = "parse"
  /\ candIdx <= Len(candidates)
  /\ IF cancelRequested
       THEN /\ cpc' = "cancelled"
            /\ UNCHANGED <<lastParsed, candIdx>>
       ELSE /\ \/ UNCHANGED lastParsed
               \/ lastParsed' = candidates[candIdx]
            /\ candIdx' = candIdx + 1
            /\ UNCHANGED cpc
  /\ UNCHANGED <<operatorTokens, jobExcludeBoards, excludedBoardTokens,
                 numKeywords, maxUrls, cafesLeft, kwDone, seen, candidates>>
  /\ UNCHANGED <<cancelRequested, startedAfterCancel, lastExcluded, lvars, svars,
                 xvars>>

\* run(): the candidate loop ends (exhausted, maxPosts or parseBudget reached)
\* and the cafe loop goes on to the next cafe, if any
runNextCafe ==
  /\ cpc = "parse"
  /\ IF cafesLeft > 1
       THEN /\ cafesLeft' = cafesLeft - 1
            /\ cpc' = IF cancelRequested THEN "cancelled" ELSE "clubid"
            /\ kwDone' = 0
            /\ seen' = {}
            /\ candidates' = <<>>
            /\ candIdx' = 0
            /\ lastParsed' = NoCand
       ELSE /\ cafesLeft' = 0
            /\ cpc' = "done"
            /\ UNCHANGED <<kwDone, seen, candidates, candIdx, lastParsed>>
  /\ UNCHANGED <<operatorTokens, jobExcludeBoards, excludedBoardTokens,
                 numKeywords, maxUrls>>
  /\ UNCHANGED <<cancelRequested, startedAfterCancel, lastExcluded, lvars, svars,
                 xvars>>

\* POST /api/scrape-jobs/[id]/cancel for the RUNNING job: the cancel key is set
cancelRunningJob ==
  /\ cpc \in {"clubid", "collect", "parse"}
  /\ ~cancelRequested
  /\ cancelRequested' = TRUE
  /\ UNCHANGED <<operatorTokens, jobExcludeBoards, cpc, excludedBoardTokens,
                 numKeywords, maxUrls, cafesLeft, kwDone, seen, candidates,
                 candIdx, lastParsed, startedAfterCancel, lastExcluded>>
  /\ UNCHANGED <<lvars, svars, xvars>>

NextCollect ==
  \/ cancelRunningJob
  \/ runLoadJob
  \/ getClubId
  \/ collectKeyword
  \/ collectReturn
  \/ runParseCandidate
  \/ runNextCafe


\* ========================================================== SpecBudget
\* job creation (maxPosts) and the numbers of the collector: candidate cap,
\* per-keyword take, search page requests. Rows are counted, not held.

\* program constants
DefaultMaxPostsApi == 50
DefaultMaxPostsTelegram == 80
MaxPostsLimit == 300
PerPage == 20
MinUrls == 30
UrlCap == 120
UrlsPerPost == 6
PageCap == 6
ApiPageCap == 8
\* [feUrl, canonicalUrl, mobileFeUrl]
NumUrlVariants == 3

\* a requested maxPosts: a number in tenths (1.5 is 15), NaN, an infinity,
\* or no value at all
Num(t) == [kind |-> "num", tenths |-> t]
NoNum(k) == [kind |-> k, tenths |-> 0]
\* the numbers of articles a search page may hold (perPage = 20)
PageYields == {0, 1, PerPage - 1, PerPage}

RequestedValues ==
  {Num(t) : t \in (-MaxReqTenths..MaxReqTenths) \cup {50, 2995, 3000, 3005, 3010}}
    \cup {NoNum("nan"), NoNum("inf"), NoNum("absent")}

\* Math.floor of a number held in tenths
Floor(t) == t \div 10

\* POST /api/scrape-jobs: Number.isFinite(maxPostsRaw)
\*   ? Math.min(300, Math.max(1, Math.floor(maxPostsRaw))) : 50
apiMaxPosts(req) ==
  IF req.kind = "num"
    THEN Min(MaxPostsLimit, Max(1, Floor(req.tenths)))
    ELSE DefaultMaxPostsApi

\* handleScrape(): let maxPosts = 80; if (kv.max) maxPosts = Number(kv.max);
\* if (!Number.isFinite(maxPosts) || maxPosts <= 0) maxPosts = 80;
\* maxPosts = Math.min(300, Math.floor(maxPosts))
telegramMaxPosts(req) ==
  LET given == IF req.kind = "absent" THEN Num(DefaultMaxPostsTelegram * 10)
               ELSE req
      kept == IF given.kind # "num" \/ given.tenths <= 0
                THEN DefaultMaxPostsTelegram * 10 ELSE given.tenths
  IN Min(MaxPostsLimit, Floor(kept))

\* run(): alreadyEnough = collected.length >= job.maxPosts
alreadyEnough == bCollected >= bMaxPosts

\* run(): alreadyEnough ? 1 : Math.min(120, Math.max(30, Math.ceil(job.maxPosts * 6)))
maxUrlsFor(mp, enough) ==
  IF enough THEN 1 ELSE Min(UrlCap, Max(MinUrls, mp * UrlsPerPost))

\* Math.max(1, Math.floor(maxUrls / Math.max(1, keywords.length)))
bPerKeywordTake == Max(1, bMaxUrls \div Max(1, bKeywords))

pagesToFetchMut == Min(PageCap, (bPerKeywordTake + PerPage - 1) \div PerPage) + 1

\* Math.min(6, Math.ceil(perKeywordTake / 20))
pagesToFetch == Min(PageCap, (bPerKeywordTake + PerPage - 1) \div PerPage)

\* fetchCandidatesFromSearchApi(): Math.max(1, Math.min(8, Math.floor(maxPages)))
requestedPages == Max(1, Min(ApiPageCap, pagesToFetch))

BudgetIdle ==
  /\ bpc = "request"
  /\ trigger = "none"
  /\ requested = NoNum("absent")
  /\ bMaxPosts = 0
  /\ bCollected = 0
  /\ bMaxUrls = 0
  /\ bKwDone = 0
  /\ pageReqs = 0
  /\ bRows = 0
  /\ bCand = 0
  /\ shortPage = FALSE

\* the budget variables while another projection is explored
BudgetParked == BudgetIdle /\ bKeywords = 1

InitBudget == BudgetIdle /\ bKeywords \in 1..MaxBudgetKeywords

\* POST /api/scrape-jobs creates the job
createJobApi ==
  /\ bpc = "request"
  /\ \E req \in RequestedValues :
       /\ requested' = req
       /\ bMaxPosts' = apiMaxPosts(req)
  /\ trigger' = "api"
  /\ bpc' = "queued"
  /\ UNCHANGED <<bKeywords, bCollected, bMaxUrls, bKwDone, pageReqs, bRows, bCand>>
  /\ UNCHANGED <<shortPage, othersB>>

\* the Telegram command /scrape creates the job
createJobTelegram ==
  /\ bpc = "request"
  /\ \E req \in RequestedValues :
       /\ requested' = req
       /\ bMaxPosts' = telegramMaxPosts(req)
  /\ trigger' = "telegram"
  /\ bpc' = "queued"
  /\ UNCHANGED <<bKeywords, bCollected, bMaxUrls, bKwDone, pageReqs, bRows, bCand>>
  /\ UNCHANGED <<shortPage, othersB>>

SearchPassFirstMut == FALSE

\* run(): collectArticleCandidates() is awaited before
\* `if (alreadyEnough) { ...; continue; }`
SearchPassFirst == TRUE

\* run() reaches a cafe (the first with nothing collected, a later one with
\* up to maxPosts collected) and calls collectArticleCandidates()
collectBegin ==
  /\ bpc = "queued"
  /\ \E n \in {0, Max(0, bMaxPosts)} :
       /\ bCollected' = n
       /\ bMaxUrls' = maxUrlsFor(bMaxPosts, n >= bMaxPosts)
       /\ bpc' = IF n >= bMaxPosts /\ ~SearchPassFirst THEN "returned"
                 ELSE "fetch"
  /\ UNCHANGED <<trigger, requested, bMaxPosts, bKeywords, bKwDone, pageReqs,
                 bRows, bCand>>
  /\ UNCHANGED <<shortPage, othersB>>

\* fetchCandidatesFromSearchApi(), one pass of the page loop: the request
\* fails (first page: throw, caught by the collector as no rows; later page:
\* break), returns an empty articleList (break), or a list of len entries, up
\* to perPage, of which n are articles
fetchPage ==
  /\ bpc = "fetch"
  /\ pageReqs < requestedPages
  /\ pageReqs' = pageReqs + 1
  /\ \/ /\ bRows' = IF pageReqs = 0 THEN 0 ELSE bRows
        /\ bpc' = "take"
        /\ UNCHANGED shortPage
     \/ /\ \E len \in PageYields \ {0}, n \in PageYields :
             /\ n <= len
             /\ bRows' = bRows + n
             /\ shortPage' = (shortPage \/ len < PerPage)
        /\ bpc' = IF pageReqs + 1 < requestedPages THEN "fetch" ELSE "take"
  /\ UNCHANGED <<trigger, requested, bMaxPosts, bKeywords, bCollected, bMaxUrls,
                 bKwDone, bCand>>
  /\ UNCHANGED othersB

\* collectArticleCandidates(), the take loop of one keyword: of the first
\* `take` rows, those on an excluded board or already seen are dropped and the
\* others are pushed while candidates.length < maxUrls
takeKeyword ==
  /\ bpc = "take"
  /\ LET take == Max(1, Min(bPerKeywordTake, bRows))
     IN \E kept \in {0, Min(1, bRows), Min(take, bRows)} :
          bCand' = Min(bMaxUrls, bCand + kept)
  /\ bKwDone' = bKwDone + 1
  /\ IF bKwDone + 1 < bKeywords
       THEN /\ bpc' = "fetch"
            /\ pageReqs' = 0
            /\ bRows' = 0
            /\ shortPage' = FALSE
       ELSE /\ bpc' = "sort"
            /\ UNCHANGED <<pageReqs, bRows, shortPage>>
  /\ UNCHANGED <<trigger, requested, bMaxPosts, bKeywords, bCollected, bMaxUrls>>
  /\ UNCHANGED othersB

\* collectArticleCandidates(): sort, truncate to maxUrls, return
collectEnd ==
  /\ bpc = "sort"
  /\ bCand' = IF bCand > bMaxUrls THEN bMaxUrls ELSE bCand
  /\ bpc' = "returned"
  /\ UNCHANGED <<trigger, requested, bMaxPosts, bKeywords, bCollected, bMaxUrls,
                 bKwDone, pageReqs, bRows>>
  /\ UNCHANGED <<shortPage, othersB>>

NextBudget ==
  \/ createJobApi
  \/ createJobTelegram
  \/ collectBegin
  \/ fetchPage
  \/ takeKeyword
  \/ collectEnd

\* =========================================================== SpecParse
\* parsePost() on one candidate. A text is a sequence of lines and a line a
\* sequence of words; the Korean phrases of the classifiers are words:
\*   "j1","j2"      카페에 가입하면 바로 글을 볼 수 있어요 (two words of it)
\*   "tenSec"       10초 만에 가입하기      "tryJoin"  가입해 보세요
\*   "withMembers"  멤버와 함께하는

\* text.replace(/\s+/g, " "): the words of all lines in a row
RECURSIVE Flatten(_)
Flatten(text) == IF text = <<>> THEN <<>> ELSE Head(text) \o Flatten(Tail(text))

JoinWallPhrase == <<"j1", "j2">>
JoinWallFlags == {JoinWallPhrase, <<"tenSec">>, <<"tryJoin">>, <<"withMembers">>}

\* looksLikeJoinWall(): flags.some((f) => t.includes(f))
looksLikeJoinWall(text) == \E f \in JoinWallFlags : includes(Flatten(text), f)

\* flags.filter((f) => t.includes(f)).length
Hits(text, flags) == Cardinality({f \in flags : includes(Flatten(text), f)})

PermissionWallFlags ==
  {<<"grade1">>, <<"grade2">>, <<"grade3">>, <<"grade4">>, <<"grade5">>, <<"grade6">>}
looksLikePermissionWall(text) == Hits(text, PermissionWallFlags) >= 2

ProfileFlags ==
  {<<"popular">>, <<"visits">>, <<"written">>, <<"subscribers">>,
   <<"written", "commented">>, <<"postList">>, <<"subject">>, <<"date">>,
   <<"paging">>, <<"write">>}
looksLikeProfileOrPostList(text) == Hits(text, ProfileFlags) >= 4

\* String.prototype.trim on a text: blank lines at both ends go
RECURSIVE textTrimStart(_)
textTrimStart(text) ==
  IF text # <<>> /\ Head(text) = <<>> THEN textTrimStart(Tail(text)) ELSE text
RECURSIVE textTrimEnd(_)
textTrimEnd(text) ==
  IF text # <<>> /\ text[Len(text)] = <<>>
    THEN textTrimEnd(SubSeq(text, 1, Len(text) - 1)) ELSE text
textTrim(text) == textTrimEnd(textTrimStart(text))

\* text.length, counted in words and line ends
RECURSIVE textLength(_)
textLength(text) ==
  IF text = <<>> THEN 0
  ELSE Len(Head(text)) + (IF Len(text) > 1 THEN 1 ELSE 0) + textLength(Tail(text))

DropIfIncludes ==
  JoinWallFlags \cup
    {<<"skipToBody">>, <<"menu">>, <<"recentWeek">>, <<"popular">>,
     <<"written", "commented">>, <<"postList">>, <<"paging">>}
DropExact ==
  {<<"home">>, <<"join">>, <<"search">>, <<"menu">>, <<"openApp">>, <<"etc">>,
   <<"note">>, <<"share">>, <<"report">>, <<"comments">>, <<"allPosts">>,
   <<"allServices">>, <<"write">>}

\* cleanCafeText(): split into lines, drop empty lines, drop UI lines, join
cleanCafeText(text) ==
  textTrim(SelectSeq(nonEmpty(text),
    LAMBDA l : /\ l \notin DropExact
               /\ ~ \E ph \in DropIfIncludes : includes(l, ph)
               /\ Head(l) # "memberCount"))

\* extractPostBodyText(): the longest container text that is not empty and
\* matches none of the three classifiers; "" if there is none
RECURSIVE extractPostBodyText(_, _)
extractPostBodyText(containers, best) ==
  IF containers = <<>> THEN best
  ELSE LET txt == textTrim(Head(containers))
           bad == \/ looksLikeJoinWall(txt)
                  \/ looksLikePermissionWall(txt)
                  \/ looksLikeProfileOrPostList(txt)
       IN extractPostBodyText(Tail(containers),
            IF txt # <<>> /\ ~ bad /\ textLength(txt) > textLength(best)
              THEN txt ELSE best)

\* texts a page may show
Ordinary == << <<"w">> >>
WallOnly == << JoinWallPhrase >>
WallAndText == << <<"w">>, JoinWallPhrase, <<"w", "w">> >>
WallInLine == << <<"w", "j1", "j2", "w">> >>
WallAcrossLines == << <<"w", "j1">>, <<"j2", "w">> >>
WallAndMenu == << <<"home">>, <<>>, <<"tryJoin">>, <<"memberCount", "w">> >>
GradeWall == << <<"grade1", "w">>, <<"grade3">> >>
PostList == << <<"popular">>, <<"visits", "written">>, <<"subject", "date">> >>

ContainerLists ==
  {<<>>, <<Ordinary>>, <<WallAndText>>, <<WallAndText, Ordinary>>, <<PostList>>}
DocTexts ==
  {<<>>, Ordinary, WallOnly, WallAndText, WallInLine, WallAcrossLines,
   WallAndMenu, GradeWall, PostList}
CommentTexts == {<<>>, << <<"c">> >>, WallOnly}
SourceLines == {<<>>, << <<"src">> >>}

\* a loaded URL variant: the article containers, what extractBestText()
\* returns, the comment items, the comment items of the FE page loaded for
\* the retry, the [출처] line
Pages ==
  [containers : ContainerLists, doc : DocTexts, comments : CommentTexts,
   feComments : CommentTexts, source : SourceLines]

NoPage ==
  [containers |-> <<>>, doc |-> <<>>, comments |-> <<>>, feComments |-> <<>>,
   source |-> <<>>]

\* every text the extractors read on the page is empty or shows the join-wall
\* phrase, and the document text shows it
WallPage(pg) ==
  /\ includes(Flatten(pg.doc), JoinWallPhrase)
  /\ \A i \in DOMAIN pg.containers : includes(Flatten(pg.containers[i]), JoinWallPhrase)
  /\ \A t \in {pg.comments, pg.feComments} :
       t = <<>> \/ includes(Flatten(t), JoinWallPhrase)
  /\ pg.source = <<>>

NoPost == [found |-> FALSE, bodyText |-> <<>>, commentsText |-> <<>>,
           contentText |-> <<>>]

\* isFeLike: the first and the third variant are FE article URLs, the
\* candidate's own URL may be a legacy one
isFeLike(idx) ==
  IF numVariants = 1 THEN ~ canonicalLegacy
  ELSE idx # 2 \/ ~ canonicalLegacy

\* parsePost(), the body of one pass of `for (const u of urlVariants)` after
\* the navigation: the texts it ends with, and whether it returns the post
variantBody(pg) ==
  LET raw == textTrim(extractPostBodyText(pg.containers, <<>>))
      cleaned == cleanCafeText(textTrim(pg.doc))
  IN IF raw # <<>> THEN raw
     ELSE IF /\ cleaned # <<>>
             /\ ~ looksLikeJoinWall(cleaned)
             /\ ~ looksLikePermissionWall(cleaned)
             /\ ~ looksLikeProfileOrPostList(cleaned)
       THEN cleaned
     ELSE <<>>
variantComments(pg, idx) ==
  LET first == textTrim(pg.comments)
  IN IF first = <<>> /\ ~ isFeLike(idx) /\ numVariants > 1
       THEN textTrim(pg.feComments) ELSE first
variantAccepted(bodyText, commentsText) ==
  LET joinedForChecks == textTrim(bodyText \o commentsText)
  IN /\ joinedForChecks # <<>>
     /\ ~ looksLikeJoinWall(joinedForChecks)
     /\ ~ looksLikePermissionWall(joinedForChecks)
     /\ ~ (looksLikeProfileOrPostList(bodyText) /\ commentsText = <<>>)
variantPost(bodyText, commentsText, sourceLine) ==
  LET bodyPlusSource ==
        IF sourceLine # <<>> /\ bodyText # <<>>
             /\ ~ includes(Flatten(bodyText), Flatten(sourceLine))
          THEN textTrim(bodyText \o << <<>> >> \o sourceLine) ELSE bodyText
  IN [found |-> TRUE, bodyText |-> bodyPlusSource, commentsText |-> commentsText,
      contentText |->
        IF commentsText # <<>>
          THEN textTrim(bodyPlusSource \o << <<>>, <<"[comments]">> >> \o commentsText)
          ELSE bodyPlusSource]

ParseIdle ==
  /\ ppc = "candidate"
  /\ variantIdx = 0
  /\ page = NoPage
  /\ everyWall = TRUE
  /\ parsed = NoPost
  /\ pCollected = 0
  /\ abandoned = 0

\* the parse variables while another projection is explored
ParseParked == ParseIdle /\ numVariants = 1 /\ canonicalLegacy = FALSE

\* run() calls parsePost() on a candidate: with an article id in its URL there
\* are three URL variants, without one only the URL itself
InitParse ==
  /\ ParseIdle
  /\ numVariants \in {1, NumUrlVariants}
  /\ canonicalLegacy \in BOOLEAN

\* page.goto(u) of the next variant and the extractors' reads, or the
\* navigation fails (time-out, login redirect) and parsePost() throws, which
\* run() turns into null
parseGoto ==
  /\ ppc = "candidate"
  /\ variantIdx < numVariants
  /\ \/ /\ \E pg \in Pages :
             /\ page' = pg
             /\ everyWall' = (everyWall /\ WallPage(pg))
          /\ variantIdx' = variantIdx + 1
          /\ ppc' = "loaded"
          /\ UNCHANGED parsed
     \/ /\ parsed' = NoPost
        /\ ppc' = "returned"
        /\ UNCHANGED <<variantIdx, page, everyWall>>
  /\ UNCHANGED <<numVariants, canonicalLegacy, pCollected>>
  /\ UNCHANGED <<abandoned, othersP>>

\* the rest of the pass: body, fallback body, comments, validity gate; the
\* post is returned or the loop goes on (continue)
parseVariant ==
  /\ ppc = "loaded"
  /\ LET bodyText == variantBody(page)
         commentsText == variantComments(page, variantIdx)
     IN IF variantAccepted(bodyText, commentsText)
          THEN /\ parsed' = variantPost(bodyText, commentsText, textTrim(page.source))
               /\ ppc' = "returned"
          ELSE /\ parsed' = NoPost
               /\ ppc' = "candidate"
  /\ UNCHANGED <<numVariants, canonicalLegacy, variantIdx, page, everyWall,
                 pCollected>>
  /\ UNCHANGED <<abandoned, othersP>>

\* every variant was tried: return null
parseGiveUp ==
  /\ ppc = "candidate"
  /\ variantIdx = numVariants
  /\ parsed' = NoPost
  /\ ppc' = "returned"
  /\ UNCHANGED <<numVariants, canonicalLegacy, variantIdx, page, everyWall,
                 pCollected>>
  /\ UNCHANGED <<abandoned, othersP>>

\* run(): `if (!parsed) continue;`, then the keyword and word filters of the
\* candidate (which read its subject too) drop the post or it is collected
runAfterParse ==
  /\ ppc = "returned"
  /\ IF parsed.found
       THEN pCollected' \in {pCollected, pCollected + 1}
       ELSE pCollected' = pCollected
  /\ ppc' = "next"
  /\ UNCHANGED <<numVariants, canonicalLegacy, variantIdx, page, everyWall,
                 parsed>>
  /\ UNCHANGED <<abandoned, othersP>>

\* this call of parsePost() has begun and not returned: it operates on the page
parseActive == ppc = "loaded" \/ (ppc = "candidate" /\ variantIdx > 0)

\* withTimeout(parsePost(...), 90000).catch(() => null): the timer wins the
\* race while parsePost() is still at work (three variants of up to 45 s of
\* navigation each); run() gets null and goes on to the next candidate, the
\* promise of the call that lost the race is not cancelled
parseTimeout ==
  /\ parseActive
  /\ abandoned < MaxAbandoned
  /\ abandoned' = abandoned + 1
  /\ ppc' = "candidate"
  /\ variantIdx' = 0
  /\ page' = NoPage
  /\ everyWall' = TRUE
  /\ parsed' = NoPost
  /\ UNCHANGED <<numVariants, canonicalLegacy, pCollected>>
  /\ UNCHANGED othersP

\* a call that lost the race reaches its own return
abandonedReturns ==
  /\ abandoned > 0
  /\ abandoned' = abandoned - 1
  /\ UNCHANGED <<ppc, numVariants, canonicalLegacy, variantIdx, page, everyWall,
                 parsed, pCollected>>
  /\ UNCHANGED othersP

NextParse ==
  \/ parseTimeout
  \/ abandonedReturns
  \/ parseGoto
  \/ parseVariant
  \/ parseGiveUp
  \/ runAfterParse

\* =========================================================== SpecClamp
\* clampByAutoThreshold() as a function of one batch and the job's filter

ClampCounts == {0, 1, 2}
ClampPosts == [viewCount : ClampCounts, commentCount : ClampCounts]
ClampMins == {NoMin} \cup ClampCounts

\* the batch of the scenario: view counts 10, 20, 30, 40, 50
ScenarioViews == <<10, 20, 30, 40, 50>>
ScenarioPosts ==
  [i \in DOMAIN ScenarioViews |-> [viewCount |-> ScenarioViews[i], commentCount |-> 0]]

ClampIdle ==
  /\ qpc = "collected"
  /\ qOut = <<>>

\* the clamp variables while another projection is explored
ClampParked ==
  /\ ClampIdle
  /\ qPosts = <<>>
  /\ qAuto = FALSE
  /\ qMinView = NoMin
  /\ qMinComment = NoMin

\* run() has collected a batch for a job with some filter
InitClamp ==
  /\ ClampIdle
  /\ \/ qPosts \in UNION {[1..n -> ClampPosts] : n \in 0..MaxBatch}
     \/ qPosts = ScenarioPosts
  /\ qAuto \in BOOLEAN
  /\ qMinView \in ClampMins
  /\ qMinComment \in ClampMins

\* run(): filtered = clampByAutoThreshold(collected, job.useAutoFilter,
\* job.minViewCount, job.minCommentCount)
runClamp ==
  /\ qpc = "collected"
  /\ qOut' = clampByAutoThreshold(qPosts, qAuto, qMinView, qMinComment)
  /\ qpc' = "clamped"
  /\ UNCHANGED <<qPosts, qAuto, qMinView, qMinComment>>
  /\ UNCHANGED othersQ

NextClamp ==
  \/ runClamp

\* ============================================================ SpecSink
\* run() from the first candidate to the final status, with the sheet sink.
\* A post is [id, viewCount, commentCount]; the id is its place in collected[].

SinkIds == 1..MaxSinkPosts
SinkPosts == [id : SinkIds, viewCount : Counts, commentCount : Counts]
SinkFilters ==
  {NoFilter,
   [useAutoFilter |-> TRUE, minViewCount |-> NoMin, minCommentCount |-> NoMin],
   [useAutoFilter |-> FALSE, minViewCount |-> MaxCount, minCommentCount |-> NoMin]}

IdsOf(posts) == {posts[i].id : i \in DOMAIN posts}

FlushRethrowsMut == TRUE

\* a send error leaves flushSheetRows(): its `catch (error) { console.error }`
\* does not rethrow and its callers add `.catch(() => undefined)`
FlushRethrows == FALSE

SinkRunIdle ==
  /\ kpc = "collect"
  /\ kCollected = <<>>
  /\ sheetPending = <<>>
  /\ sheetSynced = 0
  /\ handed = {}
  /\ sendFailures = 0
  /\ kFinal = <<>>
  /\ kSaveIdx = 0
  /\ kStatus = "RUNNING"
  /\ kError = NoMsg
  /\ notified = "none"

\* the sink variables while another projection is explored
SinkParked ==
  /\ SinkRunIdle
  /\ kMode = "keyword"
  /\ kJob = [maxPosts |-> 1, filter |-> NoFilter]
  /\ kStore = {}

\* run() has set the job RUNNING and opened the page; the table may hold rows
\* of earlier runs with the content of the posts to come
InitSink ==
  /\ SinkRunIdle
  /\ kMode \in {"direct", "keyword"}
  /\ kJob \in [maxPosts : SinkIds, filter : SinkFilters]
  /\ kStore \in SUBSET SinkIds

\* flushSheetRows(force): what it leaves, given whether the send throws
shouldFlush(force) ==
  IF force THEN Len(sheetPending) > 0 ELSE Len(sheetPending) >= 1
Flushed(pending, sendThrows) ==
  [pending |-> <<>>,
   handed |-> handed \cup IdsOf(pending),
   synced |-> IF sendThrows THEN sheetSynced ELSE sheetSynced + Len(pending),
   failures |-> IF sendThrows THEN sendFailures + 1 ELSE sendFailures,
   thrown |-> sendThrows /\ FlushRethrows]

\* main()'s catch for an error thrown out of run(): the update, then the
\* failure notification
SinkCatch(message) ==
  /\ kStatus' = CatchStatus(message)
  /\ kError' = CatchMessage(message)
  /\ kpc' = "notify_main"

\* directUrls mode, one pass of `for (const url of directUrls)` that accepts
\* the post
acceptDirect ==
  /\ kpc = "collect"
  /\ kMode = "direct"
  /\ Len(kCollected) < kJob.maxPosts
  /\ \E post \in SinkPosts :
       /\ post.id = Len(kCollected) + 1
       /\ kCollected' = Append(kCollected, post)
  /\ UNCHANGED <<kpc, kMode, kJob, sheetPending, sheetSynced, handed,
                 sendFailures, kFinal, kSaveIdx, kStore, kStatus, kError>>
  /\ UNCHANGED <<notified, othersK>>

\* keyword mode, one pass of `for (const cand of candidates)` that accepts
\* the post: collected.push, sheetPending.push, flushSheetRows()
acceptKeyword ==
  /\ kpc = "collect"
  /\ kMode = "keyword"
  /\ Len(kCollected) < kJob.maxPosts
  /\ \E post \in SinkPosts, sendThrows \in BOOLEAN :
       /\ post.id = Len(kCollected) + 1
       /\ sendThrows => sendFailures < MaxSendFailures
       /\ kCollected' = Append(kCollected, post)
       /\ LET pending == Append(sheetPending, post)
              out == Flushed(pending, sendThrows)
          IN /\ sheetPending' = out.pending
             /\ handed' = out.handed
             /\ sheetSynced' = out.synced
             /\ sendFailures' = out.failures
             /\ IF out.thrown
                  THEN SinkCatch(SheetSyncMsg)
                  ELSE UNCHANGED <<kpc, kStatus, kError>>
  /\ UNCHANGED <<kMode, kJob, kFinal, kSaveIdx, kStore>>
  /\ UNCHANGED <<notified, othersK>>

\* isCancelRequested() at the top of a pass: throw new Error("cancelled")
sinkCancelled ==
  /\ kpc = "collect"
  /\ SinkCatch(CancelSignal)
  /\ UNCHANGED <<kMode, kJob, kCollected, sheetPending, sheetSynced, handed,
                 sendFailures, kFinal, kSaveIdx, kStore>>
  /\ UNCHANGED <<notified, othersK>>

\* the loops end; clampByAutoThreshold(), flushSheetRows(true),
\* finalPosts = filtered.slice(0, job.maxPosts)
finalFlush ==
  /\ kpc = "collect"
  /\ \E sendThrows \in BOOLEAN :
       /\ sendThrows => (shouldFlush(TRUE) /\ sendFailures < MaxSendFailures)
       /\ LET out == IF shouldFlush(TRUE) THEN Flushed(sheetPending, sendThrows)
                     ELSE [pending |-> sheetPending, handed |-> handed,
                           synced |-> sheetSynced, failures |-> sendFailures,
                           thrown |-> FALSE]
          IN /\ sheetPending' = out.pending
             /\ handed' = out.handed
             /\ sheetSynced' = out.synced
             /\ sendFailures' = out.failures
             /\ IF out.thrown
                  THEN /\ SinkCatch(SheetSyncMsg)
                       /\ UNCHANGED kFinal
                  ELSE /\ kFinal' = Slice(clampByAutoThreshold(kCollected,
                                            kJob.filter.useAutoFilter,
                                            kJob.filter.minViewCount,
                                            kJob.filter.minCommentCount),
                                          kJob.maxPosts)
                       /\ kpc' = "save"
                       /\ UNCHANGED <<kStatus, kError>>
  /\ UNCHANGED <<kMode, kJob, kCollected, kSaveIdx, kStore>>
  /\ UNCHANGED <<notified, othersK>>

\* one pass of `for (const post of finalPosts)`: the row exists already, or it
\* is created, or the create throws
saveFinalPost ==
  /\ kpc = "save"
  /\ kSaveIdx < Len(kFinal)
  /\ LET post == kFinal[kSaveIdx + 1]
     IN \/ /\ kStore' = kStore \cup {post.id}
           /\ kSaveIdx' = kSaveIdx + 1
           /\ UNCHANGED <<kpc, kStatus, kError>>
        \/ /\ post.id \notin kStore
           /\ SinkCatch(StoreErrorMsg)
           /\ UNCHANGED <<kStore, kSaveIdx>>
  /\ UNCHANGED <<kMode, kJob, kCollected, sheetPending, sheetSynced, handed,
                 sendFailures, kFinal>>
  /\ UNCHANGED <<notified, othersK>>

\* update { status: "SUCCESS", resultCount, sheetSynced, completedAt }
sinkSuccess ==
  /\ kpc = "save"
  /\ kSaveIdx = Len(kFinal)
  /\ kStatus' = "SUCCESS"
  /\ kpc' = "notify_run"
  /\ UNCHANGED <<kMode, kJob, kCollected, sheetPending, sheetSynced, handed,
                 sendFailures, kFinal, kSaveIdx, kStore, kError>>
  /\ UNCHANGED <<notified, othersK>>

NotifyRethrowsMut == TRUE

\* telegramSendMessage(...).catch((error) => { console.error(...) }): the
\* error of a notification does not leave the call
NotifyRethrows == FALSE

\* `if (job.notifyChatId) await telegramSendMessage(...)` at the end of run()
\* and in main()'s catch: no chat id, sent, or the send throws; an error
\* leaving the call in run() would reach main()'s catch
sinkNotify ==
  /\ kpc \in {"notify_run", "notify_main"}
  /\ \E outcome \in {"no chat", "sent", "failed"} :
       /\ notified' = outcome
       /\ IF outcome = "failed" /\ NotifyRethrows /\ kpc = "notify_run"
            THEN SinkCatch(NotifyErrorMsg)
            ELSE /\ kpc' = "done"
                 /\ UNCHANGED <<kStatus, kError>>
  /\ UNCHANGED <<kMode, kJob, kCollected, sheetPending, sheetSynced, handed,
                 sendFailures, kFinal, kSaveIdx, kStore>>
  /\ UNCHANGED othersK

NextSink ==
  \/ sinkNotify
  \/ acceptDirect
  \/ acceptKeyword
  \/ sinkCancelled
  \/ finalFlush
  \/ saveFinalPost
  \/ sinkSuccess

\* ========================================================= SpecSession
\* run() from loadJob() to the first navigation, and main()'s catch.
\* A session document is "valid" (cookies and origins are arrays),
\* "noCookies", "noOrigins" (the array is missing) or "notJson"; the file may
\* be "absent"; the row may be "absent", hold an empty value ("empty") or a
\* value that does not decrypt ("badCipher").

SchemaInvalid == {"noCookies", "noOrigins"}
SessionFiles == {"absent", "valid", "notJson"} \cup SchemaInvalid
SessionRows == {"absent", "empty", "valid", "notJson", "badCipher"} \cup SchemaInvalid

\* isStorageStateObject(parsed)
isStorageStateObject(doc) == doc = "valid"

\* loadStorageState(): the path of the file, the parsed object of the row, or
\* the message of the error it throws
loadStorageState ==
  IF sessionFile # "absent" THEN [ok |-> TRUE, value |-> "path"]
  ELSE IF sessionRow \in {"absent", "empty"}
    THEN [ok |-> FALSE, value |-> SessionMissingMsg]
  ELSE IF sessionRow = "badCipher" THEN [ok |-> FALSE, value |-> DecryptErrorMsg]
  ELSE IF sessionRow = "notJson" THEN [ok |-> FALSE, value |-> JsonErrorMsg]
  ELSE IF ~ isStorageStateObject(sessionRow)
    THEN [ok |-> FALSE, value |-> SessionFormatMsg]
  ELSE [ok |-> TRUE, value |-> "object"]

SessionRunIdle ==
  /\ npc = "spawned"
  /\ storageState = "none"
  /\ launched = FALSE
  /\ navigated = FALSE
  /\ nStatus = "QUEUED"
  /\ nError = NoMsg

\* the session variables while another projection is explored
SessionParked ==
  /\ SessionRunIdle
  /\ jobExists = TRUE
  /\ sessionFile = "absent"
  /\ sessionRow = "valid"

\* the dispatcher has spawned the script for a QUEUED job
InitSession ==
  /\ SessionRunIdle
  /\ jobExists \in BOOLEAN
  /\ sessionFile \in SessionFiles
  /\ sessionRow \in SessionRows

\* an error leaves run(): main() catches it next
Throw(message) ==
  /\ nError' = message
  /\ npc' = "catch"

\* run(): loadJob(), `if (!job) throw`, loadStorageState()
sessionLoad ==
  /\ npc = "spawned"
  /\ IF ~ jobExists
       THEN /\ Throw(JobMissingMsg)
            /\ UNCHANGED storageState
       ELSE IF loadStorageState.ok
         THEN /\ storageState' = loadStorageState.value
              /\ npc' = "loaded"
              /\ UNCHANGED nError
         ELSE /\ Throw(loadStorageState.value)
              /\ UNCHANGED storageState
  /\ UNCHANGED <<jobExists, sessionFile, sessionRow, launched, navigated, nStatus>>
  /\ UNCHANGED othersN

\* run(): clearCancelAndProgress(), update { status: "RUNNING", ... }
sessionSetRunning ==
  /\ npc = "loaded"
  /\ nStatus' = "RUNNING"
  /\ nError' = NoMsg
  /\ npc' = "running"
  /\ UNCHANGED <<jobExists, sessionFile, sessionRow, storageState, launched,
                 navigated>>
  /\ UNCHANGED othersN

\* run(): chromium.launch({ headless: true }) starts the browser or throws
sessionLaunch ==
  /\ npc = "running"
  /\ \/ /\ launched' = TRUE
        /\ npc' = "browser"
        /\ UNCHANGED nError
     \/ /\ Throw(LaunchErrorMsg)
        /\ UNCHANGED launched
  /\ UNCHANGED <<jobExists, sessionFile, sessionRow, storageState, navigated,
                 nStatus>>
  /\ UNCHANGED othersN

\* run(): browser.newContext({ storageState, ... }); given a path the library
\* reads the file: a file that is no JSON makes it throw, one with an array
\* missing makes it throw or gives a context without that part
sessionNewContext ==
  /\ npc = "browser"
  /\ LET doc == IF storageState = "path" THEN sessionFile ELSE "valid"
     IN \/ /\ doc # "notJson"
           /\ npc' = "context"
           /\ UNCHANGED nError
        \/ /\ doc # "valid"
           /\ Throw(ContextErrorMsg)
  /\ UNCHANGED <<jobExists, sessionFile, sessionRow, storageState, launched,
                 navigated, nStatus>>
  /\ UNCHANGED othersN

\* run(): context.newPage() and the first page.goto()
sessionNavigate ==
  /\ npc = "context"
  /\ navigated' = TRUE
  /\ npc' = "scraping"
  /\ UNCHANGED <<jobExists, sessionFile, sessionRow, storageState, launched,
                 nStatus, nError>>
  /\ UNCHANGED othersN

\* main(), catch: update { status: "FAILED", errorMessage: message }; for a
\* job that does not exist the update fails and is swallowed
sessionCatch ==
  /\ npc = "catch"
  /\ nStatus' = IF jobExists THEN CatchStatus(nError) ELSE nStatus
  /\ npc' = "exited"
  /\ UNCHANGED <<jobExists, sessionFile, sessionRow, storageState, launched,
                 navigated, nError>>
  /\ UNCHANGED othersN

NextSession ==
  \/ sessionLoad
  \/ sessionSetRunning
  \/ sessionLaunch
  \/ sessionNewContext
  \/ sessionNavigate
  \/ sessionCatch

\* ============================================================ SpecTick
\* the dispatcher's loop: the order of the steps of tick() and what main()
\* does with a tick that throws. Job rows are counted, not held.

TickRethrowsMut == TRUE

\* main(): await tick().catch((error) => { console.error(...) })
TickRethrows == FALSE

\* the dispatcher process has started: let lastCafeRefreshAt = 0
TickIdle ==
  /\ tpc = "sleep"
  /\ lastTick = "none"
  /\ refreshDue = TRUE
  /\ tRunning = FALSE

\* the tick variables while another projection is explored
TickParked == TickIdle /\ tQueued = 0

InitTick == TickIdle /\ tQueued \in 0..MaxTickJobs

\* tick(): heartbeat, then clearStaleRunningJobs().catch(...): a RUNNING row
\* is failed if it is stale (and the sweep did not throw), else it stays
tickStart ==
  /\ tpc = "sleep"
  /\ tRunning' \in (IF tRunning THEN BOOLEAN ELSE {FALSE})
  /\ tpc' = "maintain"
  /\ UNCHANGED <<tQueued, refreshDue, lastTick>>
  /\ UNCHANGED othersT

\* maybeRefreshCafes(): if (now - lastCafeRefreshAt < intervalMs) return;
\* else spawn refresh-cafes.ts and wait for its exit
maybeRefreshCafes ==
  /\ tpc = "maintain"
  /\ IF refreshDue
       THEN /\ refreshDue' = FALSE
            /\ tpc' = "await_maintenance"
       ELSE /\ tpc' = "count"
            /\ UNCHANGED refreshDue
  /\ UNCHANGED <<tQueued, tRunning, lastTick>>
  /\ UNCHANGED othersT

\* child.on("exit") of the hourly refresh
maintenanceExit ==
  /\ tpc = "await_maintenance"
  /\ tpc' = "count"
  /\ UNCHANGED <<tQueued, tRunning, refreshDue, lastTick>>
  /\ UNCHANGED othersT

\* prisma.scrapeJob.count({ status: "RUNNING" }): the query throws, or
\* running > 0 ends the tick, or the tick goes on
tickCount ==
  /\ tpc = "count"
  /\ \/ /\ tpc' = "threw"
        /\ UNCHANGED lastTick
     \/ /\ tRunning
        /\ tpc' = "sleep"
        /\ lastTick' = "busy"
     \/ /\ ~tRunning
        /\ tpc' = "find"
        /\ UNCHANGED lastTick
  /\ UNCHANGED <<tQueued, tRunning, refreshDue>>
  /\ UNCHANGED othersT

\* findFirst({ status: "QUEUED" }): the query throws, or there is no job, or
\* the script of the job is spawned
tickFind ==
  /\ tpc = "find"
  /\ \/ /\ tpc' = "threw"
        /\ UNCHANGED <<tQueued, lastTick>>
     \/ /\ tQueued = 0
        /\ tpc' = "sleep"
        /\ lastTick' = "idle"
        /\ UNCHANGED tQueued
     \/ /\ tQueued > 0
        /\ tQueued' = tQueued - 1
        /\ tpc' = "await_child"
        /\ UNCHANGED lastTick
  /\ UNCHANGED <<tRunning, refreshDue>>
  /\ UNCHANGED othersT

\* child.on("exit"): the job's row is terminal, or the child died after it
\* had set the row RUNNING
tickChildExit ==
  /\ tpc = "await_child"
  /\ tRunning' \in BOOLEAN
  /\ tpc' = "sleep"
  /\ lastTick' = "ran"
  /\ UNCHANGED <<tQueued, refreshDue>>
  /\ UNCHANGED othersT

\* main(): the rejected tick() is caught and logged, the loop goes on to its
\* setTimeout(resolve, 5000)
mainLoopCatch ==
  /\ tpc = "threw"
  /\ tpc' = IF TickRethrows THEN "stopped" ELSE "sleep"
  /\ lastTick' = "failed"
  /\ UNCHANGED <<tQueued, tRunning, refreshDue>>
  /\ UNCHANGED othersT

\* an hour has passed since lastCafeRefreshAt
hourPasses ==
  /\ ~refreshDue
  /\ refreshDue' = TRUE
  /\ UNCHANGED <<tpc, tQueued, tRunning, lastTick>>
  /\ UNCHANGED othersT

\* POST /api/scrape-jobs creates a QUEUED job
jobQueued ==
  /\ tQueued < MaxTickJobs
  /\ tQueued' = tQueued + 1
  /\ UNCHANGED <<tpc, tRunning, refreshDue, lastTick>>
  /\ UNCHANGED othersT

NextTick ==
  \/ tickStart
  \/ maybeRefreshCafes
  \/ maintenanceExit
  \/ tickCount
  \/ tickFind
  \/ tickChildExit
  \/ mainLoopCatch
  \/ hourPasses
  \/ jobQueued

\* ============================================================ SpecCell
\* the text fields of a row on their way to the sheet and to the store. A
\* text is its length, and whether it ends with the truncation marker.

\* clampForSheetCell(input, maxChars = 45000)
SheetCellMax == 45000
\* the lengths of a body or of the comments of a post
CellLens == {0, 1} \cup {SheetCellMax + d : d \in (0 - 1)..MaxOver}

RECURSIVE Digits(_)
Digits(n) == IF n < 10 THEN 1 ELSE 1 + Digits(n \div 10)

\* `\n\n[TRUNCATED: ${s.length} chars]`
SuffixLen(len) == 14 + Digits(len) + 7

Whole(len) == [len |-> len, marked |-> FALSE]

\* if (s.length <= maxChars) return s;
\* return s.slice(0, Math.max(0, maxChars - suffix.length)) + suffix
clampForSheetCell(len) ==
  IF len <= SheetCellMax THEN Whole(len)
  ELSE [len |-> Max(0, SheetCellMax - SuffixLen(len)) + SuffixLen(len),
        marked |-> TRUE]

\* parsePost(): contentText = commentsText
\*   ? `${bodyPlusSource}\n\n[댓글]\n${commentsText}`.trim() : bodyPlusSource
contentLength(bodyLen, commentsLen) ==
  IF commentsLen = 0 THEN bodyLen
  ELSE IF bodyLen = 0 THEN 5 + commentsLen
  ELSE bodyLen + 7 + commentsLen

NoCell == [sent |-> FALSE]
NoLen == -1

CellIdle ==
  /\ gpc = "parsed"
  /\ gPending = NoCell
  /\ gSent = NoCell
  /\ gStored = NoLen

\* the cell variables while another projection is explored
CellParked == CellIdle /\ gPost = [bodyText |-> 1, commentsText |-> 0, contentText |-> 1]

\* parsePost() has returned a post
InitCell ==
  /\ CellIdle
  /\ \E b \in CellLens, c \in CellLens :
       gPost = [bodyText |-> b, commentsText |-> c,
                contentText |-> contentLength(b, c)]

\* run(): sheetPending.push({ ..., bodyText: parsed.bodyText || "",
\* commentsText: parsed.commentsText || "", contentText: parsed.contentText })
cellPush ==
  /\ gpc = "parsed"
  /\ gPending' = [sent |-> TRUE, bodyText |-> Whole(gPost.bodyText),
                  commentsText |-> Whole(gPost.commentsText),
                  contentText |-> Whole(gPost.contentText)]
  /\ gpc' = "pending"
  /\ UNCHANGED <<gPost, gSent, gStored>>
  /\ UNCHANGED othersG

\* sendRowsToGoogleSheet(): without GSHEET_WEBHOOK_URL it returns; else the
\* rows are posted as ({ ...r, contentText: clampForSheetCell(r.contentText) })
sendRowsToGoogleSheet ==
  /\ gpc = "pending"
  /\ \/ UNCHANGED gSent
     \/ gSent' = [gPending EXCEPT
                    !.contentText = clampForSheetCell(gPending.contentText.len)]
  /\ gpc' = "flushed"
  /\ UNCHANGED <<gPost, gPending, gStored>>
  /\ UNCHANGED othersG

\* run(), the save loop: prisma.scrapePost.create({ data: { ...,
\* contentText: post.contentText, ... } })
cellSave ==
  /\ gpc = "flushed"
  /\ gStored' = gPost.contentText
  /\ gpc' = "saved"
  /\ UNCHANGED <<gPost, gPending, gSent>>
  /\ UNCHANGED othersG

NextCell ==
  \/ cellPush
  \/ sendRowsToGoogleSheet
  \/ cellSave

\* =========================================================== SpecWords
\* the include/exclude words from the request to the filter of run().

\* what an operator may type as one word, and the texts of a post
WordTokens == {<<>>, <<"A">>, <<"b">>, <<"a", " ", "b">>}
WordLists == UNION {[1..n -> WordTokens] : n \in 0..MaxWords}
FilterTexts == {<<>>, <<"a">>, <<"a", "b">>, <<"A", " ", "B">>, <<"b", " ", "l">>}

isAllowedByWordsMut(text, includeWords, excludeWords) ==
  LET compact == toLowerCase(removeWhitespace(text))
  IN /\ includeWords # <<>> =>
          \E i \in DOMAIN includeWords : includes(compact, includeWords[i])
     /\ ~ \E i \in DOMAIN excludeWords : includes(compact, excludeWords[i])

\* compact = text.replace(/\s+/g, "").toLowerCase(); a word hits when
\* compact.includes(word.toLowerCase())
isAllowedByWords(text, includeWords, excludeWords) ==
  LET compact == toLowerCase(removeWhitespace(text))
  IN /\ includeWords # <<>> =>
          \E i \in DOMAIN includeWords :
             includes(compact, toLowerCase(includeWords[i]))
     /\ ~ \E i \in DOMAIN excludeWords :
             includes(compact, toLowerCase(excludeWords[i]))

NoWords == [includeWords |-> NullCol, excludeWords |-> NullCol]

WordsIdle ==
  /\ fpc = "request"
  /\ fJob = NoWords
  /\ fInclude = <<>>
  /\ fExclude = <<>>
  /\ fText = <<>>
  /\ fAllowed = FALSE

\* POST /api/scrape-jobs: includeWords and excludeWords are stored as
\* JSON.stringify(parseStringList(body.includeKeywords / excludeKeywords))
wordsCreateApi ==
  /\ fpc = "request"
  /\ \E inc \in WordLists, exc \in WordLists :
       fJob' = [includeWords |-> parseStringList(inc),
                excludeWords |-> parseStringList(exc)]
  /\ fpc' = "queued"
  /\ UNCHANGED <<fInclude, fExclude, fText, fAllowed>>
  /\ UNCHANGED othersF

\* the Telegram command /scrape: includeWords: JSON.stringify([]),
\* excludeWords: JSON.stringify([])
wordsCreateTelegram ==
  /\ fpc = "request"
  /\ fJob' = [includeWords |-> <<>>, excludeWords |-> <<>>]
  /\ fpc' = "queued"
  /\ UNCHANGED <<fInclude, fExclude, fText, fAllowed>>
  /\ UNCHANGED othersF

\* run(): includeWords = parseJsonStringArray(job.includeWords), excludeWords
\* likewise
wordsLoad ==
  /\ fpc = "queued"
  /\ fInclude' = parseJsonStringArray(fJob.includeWords)
  /\ fExclude' = parseJsonStringArray(fJob.excludeWords)
  /\ fpc' = "loaded"
  /\ UNCHANGED <<fJob, fText, fAllowed>>
  /\ UNCHANGED othersF

\* run(): isAllowedByWords(`${parsed.title}\n${parsed.contentText}`,
\* includeWords, excludeWords) for a parsed post
wordsFilter ==
  /\ fpc \in {"loaded", "filtered"}
  /\ \E text \in FilterTexts :
       /\ fText' = text
       /\ fAllowed' = isAllowedByWords(text, fInclude, fExclude)
  /\ fpc' = "filtered"
  /\ UNCHANGED <<fJob, fInclude, fExclude>>
  /\ UNCHANGED othersF

NextWords ==
  \/ wordsCreateApi
  \/ wordsCreateTelegram
  \/ wordsLoad
  \/ wordsFilter

\* ------------------------------------------------------------ life cycle
Next ==
  \/ Advance
  \/ clearStaleRunningJobs
  \/ tickCountRunning
  \/ tickFindNext
  \/ refreshCafes
  \/ tickRefreshExit
  \/ tickScrapeExit
  \/ \E j \in Jobs : runLoad(j)
  \/ \E j \in Jobs : clearCancelAndProgress(j)
  \/ \E j \in Jobs : runSetRunning(j)
  \/ \E j \in Jobs : runCheckpoint(j)
  \/ \E j \in Jobs : runWork(j)
  \/ \E j \in Jobs : runSave(j)
  \/ \E j \in Jobs : runSuccess(j)
  \/ \E j \in Jobs : mainCatch(j)
  \/ \E j \in Jobs : mainCatchProgress(j)
  \/ \E j \in Jobs : workerCrash(j)
  \/ \E j \in Jobs : cancelRead(j)
  \/ cancelWrite
  \/ \E j \in Jobs : rerunRead(j)
  \/ rerunWrite

Init == InitJobs /\ SaveParked /\ CollectParked /\ BudgetParked /\ ParseParked /\ ClampParked /\ SinkParked /\ SessionParked /\ TickParked /\ CellParked /\ WordsIdle

Spec == Init /\ [][Next]_vars

\* scheduling: the dispatcher's loop keeps ticking, a spawned script runs on
\* (its loops are finite: SF for leaving them), request handlers finish,
\* time passes; requests, crashes and errors are not forced
Fairness ==
  /\ WF_vars(Advance)
  /\ WF_vars(clearStaleRunningJobs)
  /\ WF_vars(tickCountRunning)
  /\ WF_vars(tickFindNext)
  /\ WF_vars(refreshCafes)
  /\ WF_vars(tickRefreshExit)
  /\ WF_vars(tickScrapeExit)
  /\ WF_vars(cancelWrite)
  /\ WF_vars(rerunWrite)
  /\ \A j \in Jobs :
       /\ WF_vars(runLoad(j))
       /\ WF_vars(clearCancelAndProgress(j))
       /\ WF_vars(runSetRunning(j))
       /\ WF_vars(runCheckpoint(j))
       /\ WF_vars(runWork(j))
       /\ SF_vars(runSave(j))
       /\ WF_vars(runSuccess(j))
       /\ WF_vars(mainCatch(j))
       /\ WF_vars(mainCatchProgress(j))

SpecLive == Init /\ [][Next]_vars /\ Fairness


InitS == InitJobsParked /\ InitSave /\ CollectParked /\ BudgetParked /\ ParseParked /\ ClampParked /\ SinkParked /\ SessionParked /\ TickParked /\ CellParked /\ WordsIdle

SpecSave == InitS /\ [][NextSave]_vars

InitC == InitJobsParked /\ SaveParked /\ InitCollect /\ BudgetParked /\ ParseParked /\ ClampParked /\ SinkParked /\ SessionParked /\ TickParked /\ CellParked /\ WordsIdle

SpecCollect == InitC /\ [][NextCollect]_vars

InitB == InitJobsParked /\ SaveParked /\ CollectParked /\ InitBudget /\ ParseParked /\ ClampParked /\ SinkParked /\ SessionParked /\ TickParked /\ CellParked /\ WordsIdle

SpecBudget == InitB /\ [][NextBudget]_vars

InitP == InitJobsParked /\ SaveParked /\ CollectParked /\ BudgetParked /\ InitParse /\ ClampParked /\ SinkParked /\ SessionParked /\ TickParked /\ CellParked /\ WordsIdle

SpecParse == InitP /\ [][NextParse]_vars

InitQ == InitJobsParked /\ SaveParked /\ CollectParked /\ BudgetParked /\ ParseParked /\ InitClamp /\ SinkParked /\ SessionParked /\ TickParked /\ CellParked /\ WordsIdle

SpecClamp == InitQ /\ [][NextClamp]_vars

InitK ==
  /\ InitJobsParked /\ SaveParked /\ CollectParked /\ BudgetParked
  /\ ParseParked /\ ClampParked /\ InitSink /\ SessionParked /\ TickParked /\ CellParked /\ WordsIdle

SpecSink == InitK /\ [][NextSink]_vars

InitN ==
  /\ InitJobsParked /\ SaveParked /\ CollectParked /\ BudgetParked
  /\ ParseParked /\ ClampParked /\ SinkParked /\ InitSession /\ TickParked /\ CellParked /\ WordsIdle

SpecSession == InitN /\ [][NextSession]_vars

InitT ==
  /\ InitJobsParked /\ SaveParked /\ CollectParked /\ BudgetParked
  /\ ParseParked /\ ClampParked /\ SinkParked /\ SessionParked /\ InitTick /\ CellParked /\ WordsIdle

SpecTick == InitT /\ [][NextTick]_vars

\* scheduling: main()'s loop runs on and a spawned child exits
FairnessTick ==
  /\ WF_vars(tickStart)
  /\ WF_vars(maybeRefreshCafes)
  /\ WF_vars(maintenanceExit)
  /\ WF_vars(tickCount)
  /\ WF_vars(tickFind)
  /\ WF_vars(tickChildExit)
  /\ WF_vars(mainLoopCatch)

SpecTickLive == InitT /\ [][NextTick]_vars /\ FairnessTick

InitG ==
  /\ InitJobsParked /\ SaveParked /\ CollectParked /\ BudgetParked
  /\ ParseParked /\ ClampParked /\ SinkParked /\ SessionParked /\ TickParked
  /\ InitCell /\ WordsIdle

SpecCell == InitG /\ [][NextCell]_vars

InitF ==
  /\ InitJobsParked /\ SaveParked /\ CollectParked /\ BudgetParked
  /\ ParseParked /\ ClampParked /\ SinkParked /\ SessionParked /\ TickParked
  /\ CellParked /\ WordsIdle

SpecWords == InitF /\ [][NextWords]_vars

\* ------------------------------------------------ life cycle: properties
Executing == {j \in Jobs : Alive(j)}
                \cup (IF rpc = "running" THEN {nextJob} ELSE {})

\* C1: every change of a job's status is one of QUEUED->RUNNING,
\* RUNNING->SUCCESS, RUNNING->FAILED, RUNNING->CANCELLED, QUEUED->CANCELLED
AllowedTransitions ==
  {<<"QUEUED", "RUNNING">>, <<"RUNNING", "SUCCESS">>, <<"RUNNING", "FAILED">>,
   <<"RUNNING", "CANCELLED">>, <<"QUEUED", "CANCELLED">>}
C1_OnlyAllowedTransitions ==
  [][\A j \in Jobs : status'[j] # status[j]
        => <<status[j], status'[j]>> \in AllowedTransitions]_vars

\* C2: single flight: at most one job is being executed (scrape worker or
\* refresh child alive) and at most one job has status RUNNING; whenever a
\* worker has just been spawned no other job is executing
C2_SingleFlight ==
  /\ Cardinality(Executing) <= 1
  /\ Cardinality({j \in Jobs : status[j] = "RUNNING"}) <= 1
  /\ \A j \in Jobs : wpc[j] = "spawned" => Executing = {j}
\* a worker is executing a RUNNING job while another job waits QUEUED
C2_Witness ==
  \E j, k \in Jobs :
     /\ j # k
     /\ dpc = "await_scrape" /\ Alive(j) /\ status[j] = "RUNNING"
     /\ status[k] = "QUEUED"

\* C3: a job cancelled while QUEUED is CANCELLED from then on (never
\* RUNNING) and has neither a progress key nor a cancel key
C3_QueuedCancelIsFinal ==
  \A j \in Jobs : cancelledQueued[j]
     => /\ status[j] = "CANCELLED"
        /\ progressStage[j] = "none"
        /\ ~cancelFlag[j]

Stuck(j) ==
  /\ status[j] = "RUNNING"
  /\ startedAt[j] = Old
  /\ progressAt[j] \in {NoTime, Old}
C5_StaleJobFailedQueueProceeds ==
  [][/\ (dpc = "sleep" /\ dpc' = "count")
          => \A j \in Jobs : Stuck(j)
                => status'[j] = "FAILED" /\ errorMessage'[j] = StaleMsg
     /\ (dpc = "find" /\ dpc' # "find" /\ Queued # {})
          => /\ nextJob' = OldestQueued
             /\ dpc' \in {"await_scrape", "await_refresh"}]_vars

\* C6: once a job is SUCCESS, FAILED or CANCELLED no operation changes its
\* status, startedAt, completedAt or errorMessage
C6_TerminalImmutable ==
  [][\A j \in Jobs : status[j] \in Terminal
        => /\ status'[j] = status[j]
           /\ startedAt'[j] = startedAt[j]
           /\ completedAt'[j] = completedAt[j]
           /\ errorMessage'[j] = errorMessage[j]]_vars

\* C9: for every job type, an execution ended by the cancellation signal
\* is recorded CANCELLED with the cancellation message, one ended by any
\* other error is recorded FAILED with the error text, and a failed
\* execution is never recorded SUCCESS
C9_ErrorsMapToStatus ==
  [][/\ \A j \in Jobs :
          (wpc[j] = "catch" /\ wrote'[j] # wrote[j])
             => IF werr[j] = CancelSignal
                  THEN status'[j] = "CANCELLED" /\ errorMessage'[j] = WorkerCancelMsg
                  ELSE status'[j] = "FAILED" /\ errorMessage'[j] = werr[j]
     /\ (dpc = "await_refresh" /\ rpc = "exit_error" /\ dpc' = "sleep")
          => status'[nextJob] # "SUCCESS"]_vars


\* ---------------------------------------------------- run content: properties
\* C7 (as stated): for every job the number of rows persisted under the job,
\* and its resultCount, never exceed the job's maxPosts.
C7_PersistedWithinMaxPosts ==
  \A j \in Jobs : /\ RowsOfJob(j) <= maxPosts[j]
                  /\ resultCount[j] <= maxPosts[j]

\* C7 (amended): each run of a job persists at most maxPosts rows, so the
\* running savedCount and the stored resultCount never exceed maxPosts and the
\* rows of a job never exceed maxPosts times the number of its runs.
C7_EachRunWithinMaxPosts ==
  /\ \A j \in Jobs : /\ resultCount[j] <= maxPosts[j]
                     /\ RowsOfJob(j) <= maxPosts[j] * runs[j]
  /\ rjob # 0 => /\ savedCount <= maxPosts[rjob]
                 /\ spc = "save" => Len(finalPosts) <= maxPosts[rjob]

\* a first run that stored exactly maxPosts rows under an active filter
C7_Witness ==
  \E j \in Jobs : /\ runs[j] = 1
                  /\ rjob = j
                  /\ rfilter.useAutoFilter
                  /\ spc = "save"
                  /\ saveIdx > Len(finalPosts)
                  /\ savedCount = maxPosts[j]
                  /\ RowsOfJob(j) = maxPosts[j]

\* C8: no two stored rows share a contentHash or a (sourceUrl, contentText)
\* pair, and every row's contentHash is the digest of its URL and text.
C8_NoDuplicateRows ==
  /\ \A r \in BagToSet(scrapePost) :
       /\ CopiesIn(r, scrapePost) = 1
       /\ r.contentHash = contentHash(HashInput(r))
  /\ \A r, q \in BagToSet(scrapePost) :
       r # q => /\ r.contentHash # q.contentHash
                /\ <<r.sourceUrl, r.contentText>> # <<q.sourceUrl, q.contentText>>

\* the second run of a job presented a post its first run had stored, and
\* skipped it
C8_Witness ==
  /\ rjob # 0
  /\ runs[rjob] = 2
  /\ spc = "save"
  /\ saveIdx > 1
  /\ savedCount = 0
  /\ \E r \in BagToSet(scrapePost) :
       /\ r.jobId = rjob
       /\ r.sourceUrl = finalPosts[saveIdx - 1].sourceUrl
       /\ r.contentText = finalPosts[saveIdx - 1].contentText


\* ----------------------------------------------------- collector: properties
\* the normalized board type and board name of a candidate
BoardTokensOf(cand) ==
  {normalizeBoardToken(cand.boardType), normalizeBoardToken(cand.boardName)}

\* C10: no candidate handed to parsePost() has a normalized board type or
\* board name that equals, or contains, a (normalized, non-empty) excluded-board
\* token of the operator.
C10_ExcludedBoardNeverParsed ==
  lastParsed # NoCand =>
    \A i \in DOMAIN operatorTokens :
      LET token == normalizeBoardToken(operatorTokens[i])
      IN token # <<>> =>
           \A board \in BoardTokensOf(lastParsed) :
             ~(board = token \/ includes(board, token))

\* the same, for the tokens run() holds after loadJob()
ExcludedByLoadedTokens ==
  lastParsed # NoCand =>
    \A token \in excludedBoardTokens :
      token # <<>> =>
        \A board \in BoardTokensOf(lastParsed) :
          ~(board = token \/ includes(board, token))

\* ---------------------------------------------------------------- C11
\* the collector has returned for the only cafe of a job with one keyword
\* and maxPosts = 5
OneKeywordFivePosts ==
  /\ bpc = "returned"
  /\ bKeywords = 1
  /\ bMaxPosts = 5
  /\ bCollected = 0

C11_DedupSorted ==
  cpc = "parse" =>
    /\ \A a, b \in DOMAIN candidates :
         a # b => candidates[a].articleId # candidates[b].articleId
    /\ \A a, b \in DOMAIN candidates :
         a < b => candidates[a].addedAt >= candidates[b].addedAt
    /\ Len(candidates) <= maxUrls

\* ---------------------------------------------------------------- C18
\* C18: every job created through either trigger (the dashboard API or the
\* Telegram command) has maxPosts between 1 and 300.
C18_MaxPostsInRange ==
  bpc # "request" => bMaxPosts \in 1..MaxPostsLimit

\* ---------------------------------------------------------------- C12
\* C12: a candidate page whose extracted text shows the join-wall phrase on
\* every URL variant is rejected: parsePost() returns no post for it and it
\* adds nothing to the collected posts, whatever else the page shows.
C12_JoinWallPageRejected ==
  (ppc \in {"returned", "next"} /\ variantIdx >= 1 /\ everyWall) =>
    (~ parsed.found /\ pCollected = 0)

\* C12, the validity gate alone (SpecParse): no returned post has the
\* join-wall phrase in its body and comments.
C12_ReturnedTextShowsNoWall ==
  parsed.found => ~ looksLikeJoinWall(parsed.bodyText \o parsed.commentsText)

\* ---------------------------------------------------------------- C13
\* twice the median of a sorted list of numbers (0 for the empty list)
Median2(sorted) ==
  LET n == Len(sorted)
  IN IF n = 0 THEN 0
     ELSE IF n % 2 = 1 THEN 2 * sorted[(n + 1) \div 2]
     ELSE sorted[n \div 2] + sorted[(n \div 2) + 1]

\* a value passes a dimension: against the explicit minimum when one is
\* given, else against the median of the batch when auto mode is on
Passes(value, min, values) ==
  IF min # NoMin THEN value >= min
  ELSE IF qAuto THEN 2 * value >= Median2(SortAsc(values))
  ELSE TRUE

\* C13: with useAutoFilter on and no explicit minimum for a dimension, the
\* threshold of that dimension is the median of the batch's values (view
\* counts 10, 20, 30, 40, 50 leave exactly those of 30 and more); an explicit
\* minimum is used instead of the median; exactly the posts at or above every
\* applied threshold survive the clamp.
C13_MedianOrExplicitThreshold ==
  qpc = "clamped" =>
    LET views == [i \in DOMAIN qPosts |-> qPosts[i].viewCount]
        comments == [i \in DOMAIN qPosts |-> qPosts[i].commentCount]
    IN /\ qOut = SelectSeq(qPosts, LAMBDA post :
                    /\ Passes(post.viewCount, qMinView, views)
                    /\ Passes(post.commentCount, qMinComment, comments))
       /\ (qPosts = ScenarioPosts /\ qAuto /\ qMinView = NoMin /\ qMinComment = NoMin)
            => [i \in DOMAIN qOut |-> qOut[i].viewCount] = <<30, 40, 50>>

C13_Witness ==
  /\ qpc = "clamped"
  /\ qPosts = ScenarioPosts
  /\ qAuto
  /\ qMinView = NoMin
  /\ qMinComment = NoMin
  /\ Len(qOut) = 3

\* ---------------------------------------------------------------- C14
\* C14: every post a job accepted, in either mode, was handed to the sink's
\* send at least once before the job reached SUCCESS.
C14_EveryAcceptedPostHanded ==
  kStatus = "SUCCESS" => IdsOf(kCollected) \subseteq handed

\* C14, keyword mode alone (SpecSink): every accepted post has been handed to
\* the send by the end of the pass that accepted it, and nothing is pending.
C14_KeywordModeHandsEveryPost ==
  kMode = "keyword" => (IdsOf(kCollected) \subseteq handed /\ sheetPending = <<>>)

\* ---------------------------------------------------------------- C15
\* C15: a send that throws never fails the job: no job carries the send's
\* error, the run goes on after it, and when the job reaches SUCCESS every
\* post of the final list has a row in the store.
C15_SinkFailureNeverFailsJob ==
  /\ kError # SheetSyncMsg
  /\ (sendFailures > 0 /\ kpc \in {"collect", "save"}) => kStatus = "RUNNING"
  /\ kStatus = "SUCCESS" => IdsOf(kFinal) \subseteq kStore

C15_Witness ==
  /\ kStatus = "SUCCESS"
  /\ sendFailures > 0
  /\ kFinal # <<>>
  /\ IdsOf(kFinal) \subseteq kStore

\* ---------------------------------------------------------------- C16
\* the run of job j is past its clearCancelAndProgress()
PastClear(j) == wpc[j] \in {"cleared", "loop", "work", "saved"}

Starts == dpc = "find" /\ dpc' \in {"await_scrape", "await_refresh"}

\* C17: the job tick() starts is a QUEUED job and the one with the earliest
\* createdAt among the QUEUED jobs: no QUEUED job is started while a QUEUED
\* job created earlier exists.
C17_StartsEarliestQueued ==
  [][Starts =>
       /\ status[nextJob'] = "QUEUED"
       /\ \A k \in Jobs :
            status[k] = "QUEUED" => createdAt[nextJob'] <= createdAt[k]]_vars

\* a job has been started while a job created after it is QUEUED
C17_Witness ==
  /\ dpc \in {"await_scrape", "await_refresh"}
  /\ \E k \in Jobs :
       /\ status[k] = "QUEUED"
       /\ k # nextJob
       /\ createdAt[nextJob] < createdAt[k]

\* ---------------------------------------------------------------- C19
\* the session material the run uses: the file when there is one, else the row
Material == IF sessionFile # "absent" THEN sessionFile ELSE sessionRow

\* C19: if the session material is absent (no file and no stored record) or
\* schema-invalid (cookies or origins missing), the run fails before a browser
\* is launched or a page navigated, and the job ends FAILED with the
\* descriptive message.
C19_BadSessionFailsFast ==
  (jobExists /\ Material \in {"absent", "empty"} \cup SchemaInvalid) =>
    /\ ~ launched
    /\ ~ navigated
    /\ npc = "exited" =>
         (nStatus = "FAILED" /\ nError \in {SessionMissingMsg, SessionFormatMsg})

\* C19, the stored record alone (SpecSession): without a session file, an
\* absent or schema-invalid record fails the job with its message before the
\* browser is launched.
C19_StoredRecordFailsFast ==
  (jobExists /\ sessionFile = "absent"
     /\ sessionRow \in {"absent", "empty"} \cup SchemaInvalid) =>
    /\ ~ launched
    /\ ~ navigated
    /\ npc = "exited" =>
         /\ nStatus = "FAILED"
         /\ nError = IF sessionRow \in SchemaInvalid THEN SessionFormatMsg
                     ELSE SessionMissingMsg

\* ---------------------------------------------------------------- C20
\* job j ended FAILED or CANCELLED, a re-run request reset it, and it is
\* waiting in the queue
Requeued(j) ==
  /\ requeued[j] \in {"FAILED", "CANCELLED"}
  /\ status[j] = "QUEUED"
  /\ startedAt[j] = NoTime
  /\ completedAt[j] = NoTime
  /\ errorMessage[j] = NoMsg

\* C20: a job returned to QUEUED by a re-run request is later executed again
\* by the dispatcher (or leaves the queue through a cancel request), in every
\* run where worker processes are killed only finitely often.
C20_RequeuedJobIsExecuted ==
  (<>[][~ \E k \in Jobs : workerCrash(k)]_vars) =>
    (\A j \in Jobs : Requeued(j) ~> (status[j] # "QUEUED"))

\* C20, the request itself (Spec): a re-run request is taken up only for a
\* job that is not RUNNING, and carrying it out leaves the job QUEUED with
\* startedAt, completedAt and errorMessage null.
C20_RerunResetsJob ==
  [][/\ (rerunReq = 0 /\ rerunReq' # 0) => status[rerunReq'] # "RUNNING"
     /\ (rerunReq # 0 /\ rerunReq' = 0) =>
          /\ status'[rerunReq] = "QUEUED"
          /\ startedAt'[rerunReq] = NoTime
          /\ completedAt'[rerunReq] = NoTime
          /\ errorMessage'[rerunReq] = NoMsg]_vars

\* ---------------------------------------------------------------- C21
\* the rows of the returned list that came from keyword k
FromKeyword(k) == {i \in DOMAIN candidates : candidates[i].queryKeyword = k}

\* C21: the list collectArticleCandidates() returns for one cafe has pairwise
\* distinct article ids, is ordered by addedAt descending (a null date counts
\* as time 0), is at most maxUrls long and holds at most
\* max(1, floor(maxUrls / keywordCount)) rows of each keyword.
C21_ReturnedListWithinBudget ==
  cpc = "parse" =>
    /\ \A i, k \in DOMAIN candidates :
         i # k => candidates[i].articleId # candidates[k].articleId
    /\ \A i, k \in DOMAIN candidates :
         i < k => candidates[i].addedAt >= candidates[k].addedAt
    /\ Len(candidates) <= maxUrls
    /\ \A k \in 1..numKeywords :
         Cardinality(FromKeyword(k)) <= Max(1, maxUrls \div numKeywords)

\* a returned list merged from two keywords, full to the cafe budget, in which
\* the sort moved a newer row of the second keyword to the front
C21_Witness ==
  /\ cpc = "parse"
  /\ numKeywords = 2
  /\ Len(candidates) = 2
  /\ maxUrls = 2
  /\ candidates[1].queryKeyword = 2
  /\ candidates[2].queryKeyword = 1
  /\ candidates[1].addedAt > candidates[2].addedAt

\* ---------------------------------------------------------------- C22
\* C22: the notification at the end of a run, sent or failed, changes nothing
\* of the job: status, errorMessage, the saved rows and the synced count are
\* after the notification what the run wrote before it.
C22_NotificationNeverAffectsJob ==
  [][(kpc = "notify_run" \/ kpc = "notify_main") =>
       (/\ kStatus' = kStatus
        /\ kError' = kError
        /\ kSaveIdx' = kSaveIdx
        /\ sheetSynced' = sheetSynced
        /\ kStore' = kStore)]_vars

\* a job that saved a post and reached SUCCESS although its notification threw
C22_Witness ==
  /\ kpc = "done"
  /\ notified = "failed"
  /\ kStatus = "SUCCESS"
  /\ kError = NoMsg
  /\ kSaveIdx > 0

\* ---------------------------------------------------------------- C23
\* C23: once the cancel flag of the running job is set, at most the one
\* operation in flight goes on: no second keyword search or parsePost() is
\* begun while the flag is set.
C23_NothingStartedAfterCancel ==
  startedAfterCancel <= 1

\* ---------------------------------------------------------------- C24
\* C24: the sweep never fails a RUNNING job whose progress snapshot was
\* written within the staleness window, however old its startedAt is.
C24_SweepSparesFreshProgress ==
  [][\A j \in Jobs :
       (status[j] = "RUNNING" /\ status'[j] = "FAILED" /\ dpc = "sleep")
         => progressAt[j] # Now]_vars

\* ---------------------------------------------------------------- C25
\* the parsePost() invocations operating on the job's page
PageTasks == abandoned + (IF parseActive THEN 1 ELSE 0)

\* C25: at no time are two parsePost() invocations operating on the page,
\* also after one of them was abandoned by the 90-second timeout.
C25_OneTaskOnPage ==
  PageTasks <= 1

\* ---------------------------------------------------------------- C26
\* C26: for one keyword no further search page is requested once a page has
\* returned fewer entries than the page size or the rows fetched have reached
\* the keyword's candidate budget.
C26_NoPageAfterStopCondition ==
  [][(pageReqs >= 1 /\ pageReqs' = pageReqs + 1) =>
       (~shortPage /\ bRows < bPerKeywordTake)]_vars

\* ---------------------------------------------------------------- C27
\* C27: only posts of the final list (those that passed the word filters, the
\* auto-threshold clamp and the maxPosts cap) were handed to the sink's send
\* by the time the job reaches SUCCESS.
C27_OnlyFinalPostsHanded ==
  kStatus = "SUCCESS" => handed \subseteq IdsOf(kFinal)

\* ---------------------------------------------------------------- C28
\* the post the save loop is at, and whether a stored row carries its hash
SavingPost == finalPosts[saveIdx]
HashStored(post) ==
  \E r \in BagToSet(scrapePost) : r.contentHash = contentHash(HashInput(post))

\* C28: a pass of the save loop inserts one row for its post exactly when no
\* stored row has the post's contentHash, whatever rows are stored under the
\* post's source URL; otherwise the table is left as it is.
C28_InsertedIffHashNew ==
  [][(spc = "save" /\ saveIdx' = saveIdx + 1) =>
       IF HashStored(SavingPost)
         THEN scrapePost' = scrapePost
         ELSE scrapePost' = scrapePost (+) SetToBag(
                {[jobId |-> rjob, sourceUrl |-> SavingPost.sourceUrl,
                  contentText |-> SavingPost.contentText,
                  contentHash |-> contentHash(HashInput(SavingPost))]})]_vars

\* the pass just made stored a second row under a source URL that was stored
\* already with another content
C28_Witness ==
  /\ spc = "save"
  /\ saveIdx > 1
  /\ savedCount > 0
  /\ \E r, q \in BagToSet(scrapePost) :
       /\ r.sourceUrl = finalPosts[saveIdx - 1].sourceUrl
       /\ r.contentText = finalPosts[saveIdx - 1].contentText
       /\ q.sourceUrl = r.sourceUrl
       /\ q.contentHash # r.contentHash

\* ---------------------------------------------------------------- C29
\* the progress stage that matches a terminal status
TerminalStage(st) ==
  CASE st = "SUCCESS" -> "DONE" [] st = "CANCELLED" -> "CANCELLED"
    [] OTHER -> "FAILED"

\* C29: whenever a job's status becomes SUCCESS, CANCELLED or FAILED, its
\* progress snapshot then holds the matching stage DONE, CANCELLED or FAILED.
C29_TerminalStageWritten ==
  [][\A j \in Jobs :
       (status'[j] # status[j] /\ status'[j] \in Terminal)
         => progressStage'[j] = TerminalStage(status'[j])]_vars

\* ---------------------------------------------------------------- C30
\* C30: no job in a terminal status has its cancel flag set.
C30_NoCancelFlagOnTerminalJob ==
  \A j \in Jobs : status[j] \in Terminal => ~cancelFlag[j]

\* ---------------------------------------------------------------- C31
\* C31: the hourly cafe refresh is never launched by a tick while a job row
\* is RUNNING.
C31_NoMaintenanceWhileRunning ==
  tpc = "await_maintenance" => ~tRunning

\* ---------------------------------------------------------------- C32
\* C32: a tick that throws does not end the loop: after it, and after every
\* other tick, a next tick begins.
C32_LoopGoesOnAfterFailedTick ==
  /\ (tpc = "threw") ~> (tpc = "maintain")
  /\ []<>(tpc = "maintain")

\* a tick has begun after a tick that threw
C32_Witness ==
  /\ lastTick = "failed"
  /\ tpc = "maintain"

\* ---------------------------------------------------------------- C33
\* C33: no error of the collector's navigation or search requests, and no
\* error of a candidate's extraction, fails the job: the job goes on with the
\* next keyword or candidate.
C33_ScopedErrorsAbsorbed ==
  cpc # "failed"

\* ---------------------------------------------------------------- C34
\* C34: for a cafe the run has reached, every keyword is searched with at
\* least one request before the collector returns, also when maxPosts posts
\* were already collected from earlier cafes.
C34_EveryKeywordSearched ==
  /\ bpc = "take" => pageReqs >= 1
  /\ bpc \in {"sort", "returned"} => (bKwDone = bKeywords /\ pageReqs >= 1)

\* the collector has returned for a cafe reached with maxPosts posts collected,
\* after two keywords
C34_Witness ==
  /\ bpc = "returned"
  /\ alreadyEnough
  /\ bKeywords = 2
  /\ bKwDone = 2
  /\ bMaxUrls = 1

\* ---------------------------------------------------------------- C35
\* C35: every text field of a row posted to the sheet has at most 45,000
\* characters, a longer text ends with the truncation marker, and the store
\* holds the full text.
C35_EverySentTextClamped ==
  /\ gSent # NoCell =>
       /\ \A f \in {"bodyText", "commentsText", "contentText"} :
            /\ gSent[f].len <= SheetCellMax
            /\ gPost[f] > SheetCellMax => gSent[f].marked
  /\ gStored # NoLen => gStored = gPost.contentText

\* ---------------------------------------------------------------- C36
\* C36: the filter accepts a text iff the job has no include words or one of
\* them occurs in it, and none of the job's exclude words occurs in it, where
\* a word occurs when it is a substring after letter case and whitespace are
\* removed from both.
Occurs(word, text) ==
  includes(removeWhitespace(toLowerCase(text)),
           removeWhitespace(toLowerCase(word)))

WordsOf(column) == IF column = NullCol THEN <<>> ELSE column

C36_WordFilterAcceptsIff ==
  fpc = "filtered" =>
    LET inc == WordsOf(fJob.includeWords)
        exc == WordsOf(fJob.excludeWords)
    IN fAllowed <=>
         /\ inc = <<>> \/ \E i \in DOMAIN inc : Occurs(inc[i], fText)
         /\ ~ \E i \in DOMAIN exc : Occurs(exc[i], fText)

\* a text with capitals and a blank is accepted by the include word typed
\* as "a b"
C36_Witness ==
  /\ fpc = "filtered"
  /\ fText = <<"A", " ", "B">>
  /\ fJob.includeWords = << <<"a", "b">> >>
  /\ fJob.excludeWords = <<>>
  /\ fAllowed

\* ---------------------------------------------------------------- C37
\* C37: every job that is QUEUED later leaves QUEUED, in every run where the
\* dispatcher keeps ticking, every worker exits or crashes, and worker
\* processes are killed only finitely often.
C37_QueuedEventuallyLeaves ==
  (<>[][~ \E k \in Jobs : workerCrash(k)]_vars) =>
    (\A j \in Jobs : (status[j] = "QUEUED") ~> (status[j] # "QUEUED"))

\* ---------------------------------------------------------------- C38
\* C38: a RUNNING job has startedAt set and completedAt null, and a job in a
\* terminal status has completedAt set.
C38_TimestampsMatchStatus ==
  \A j \in Jobs :
    /\ status[j] = "RUNNING" =>
         (startedAt[j] # NoTime /\ completedAt[j] = NoTime)
    /\ status[j] \in Terminal => completedAt[j] # NoTime

\* ---------------------------------------------------------------- C39
\* C39: every row the board exclusion drops has a normalized board type or
\* board name that equals or contains one of the excluded-board tokens run()
\* holds.
C39_DroppedOnlyIfBoardContainsToken ==
  \A row \in lastExcluded :
    \E board \in BoardTokensOf(row), token \in excludedBoardTokens :
      /\ token # <<>>
      /\ board = token \/ includes(board, token)

====
